---- MODULE Spec2Model ----
(***************************************************************************)
(* Verification model of the stress expert system:                         *)
(*   src/sample.py                 forward_chain / classify_stress         *)
(*   src/project.py                CLIPS rule base, evaluate_responses,    *)
(*                                 RuleEngine, assess                      *)
(*   src/stress_expert_web/app.py  range rules on the overall metric       *)
(***************************************************************************)
EXTENDS Integers, Sequences, FiniteSets, TLC

(***************************************************************************)
(* Bounds of the model.                                                    *)
(***************************************************************************)
\* largest number of symptoms in an initial fact list
MaxInitial == 3
\* largest number of symptoms added to an initial fact list for a second call
MaxExtra == 2
\* the pass counter of forward_chain saturates here
MaxPasses == 4

(***************************************************************************)
(* src/sample.py                                                           *)
(***************************************************************************)
\* sample.py:43-54, the keys of SYMPTOMS
SYMPTOMS ==
  { "poor_sleep", "irritability", "deadline_pressure", "persistent_fatigue",
    "difficulty_concentrating", "skip_meals", "racing_thoughts",
    "procrastination", "social_withdrawal", "minor_worry_only" }

\* sample.py:9-25, in list order: (conditions, conclusion)
RULES ==
  << [conditions |-> <<"poor_sleep", "irritability", "deadline_pressure">>,
      conclusion |-> "stress_high"],
     [conditions |-> <<"persistent_fatigue", "difficulty_concentrating">>,
      conclusion |-> "stress_high"],
     [conditions |-> <<"skip_meals", "racing_thoughts">>,
      conclusion |-> "stress_high"],
     [conditions |-> <<"procrastination", "deadline_pressure">>,
      conclusion |-> "stress_moderate"],
     [conditions |-> <<"social_withdrawal", "irritability">>,
      conclusion |-> "stress_moderate"],
     [conditions |-> <<"minor_worry_only">>, conclusion |-> "stress_low"],
     [conditions |-> <<"stress_high">>, conclusion |-> "rec_breaks"],
     [conditions |-> <<"stress_high">>, conclusion |-> "rec_counselor"],
     [conditions |-> <<"stress_high">>, conclusion |-> "rec_sleep"],
     [conditions |-> <<"stress_high">>, conclusion |-> "rec_time_block"],
     [conditions |-> <<"stress_moderate">>, conclusion |-> "rec_plan"],
     [conditions |-> <<"stress_moderate">>, conclusion |-> "rec_exercise"],
     [conditions |-> <<"stress_moderate">>, conclusion |-> "rec_peer"],
     [conditions |-> <<"stress_low">>, conclusion |-> "rec_monitor"] >>

VARIABLES
  initial_facts,  \* forward_chain: the argument, as a set
  facts,          \* forward_chain: the local set facts
  changed,        \* forward_chain: the local flag changed
  fc_i,           \* forward_chain: position of the for loop in RULES
  fc_pc,          \* forward_chain: "call", "while", "for", "done"
  passes,         \* number of passes over RULES started in this call
  pass_base,      \* the fact set when the current pass started
  fc_mode,        \* "first", "closure" (called on its own result),
                  \* "superset" (called on a superset of the first input)
  prev_input,     \* argument of the first call
  prev_result,    \* result of the first call
  ev_level,       \* evaluate: the local level
  ev_recs,        \* evaluate: the local list recs
  ev_recommendations, \* evaluate: the returned "recommendations"
  prev_level      \* "stress_level" returned by the first call of evaluate

\* what forward_chain leaves alone of the state of evaluate
ev_vars == << ev_level, ev_recs, ev_recommendations, prev_level >>

fc_vars == << initial_facts, facts, changed, fc_i, fc_pc, passes, pass_base,
              fc_mode, prev_input, prev_result, ev_vars >>

(***************************************************************************)
(* src/project.py: state of one assess request                             *)
(***************************************************************************)
VARIABLES
  as_pc,          \* assess / evaluate_responses: control position
  responses,      \* the answers that yield a symptom, in dict order,
                  \* as <<question, value>>
  other_n,        \* number of the other answers in responses
  other_sum,      \* sum of the other answers in responses
  resp_i,         \* evaluate_responses: position of the loop at line 401
  student_final_stress, \* Student.final_stress
  wm_symptom,     \* CLIPS: names of the symptom facts held (value is 1)
  wm_metric,      \* CLIPS: the metric facts held, [name, value]
  wm_overall_set, \* CLIPS: is_set of the overall_set facts held
  es_result,      \* CLIPS: the es_result facts held, in fact order
  agenda,         \* CLIPS: the activations, the next to fire first
  fired,          \* CLIPS: the activations fired by env.run(), in order
  scan_level,     \* results["stress_level"] after the loop at line 427
  stress_level,   \* results["stress_level"] as returned
  final_stress,   \* assess: final_stress
  final_stress_display, \* assess: final_stress_display
  as_mode,        \* "first" or "superset" (a request with one more symptom)
  prev_symptom,   \* symptom facts at the fixpoint of the first request
  prev_es_result, \* es_result facts at the fixpoint of the first request
  wm_recommendation, \* CLIPS: the recommendation facts held, in fact order
  recommendations, \* results["recommendations"] as returned
  prev_response   \* what the first request answered, for a second request
                  \* that adds an unknown key

as_vars == << as_pc, responses, other_n, other_sum, resp_i,
              student_final_stress, wm_symptom, wm_metric, wm_overall_set,
              es_result, agenda, fired, scan_level, stress_level,
              final_stress, final_stress_display, as_mode, prev_symptom,
              prev_es_result, wm_recommendation, recommendations,
              prev_response >>

(***************************************************************************)
(* src/stress_expert_web/app.py: state of one run_inference_with_clips     *)
(***************************************************************************)
VARIABLES
  app_pc,         \* run_inference_with_clips: control position
  app_responses,  \* the argument responses, key -> value
  stress_scores,  \* the local dict stress_scores
  app_overall,    \* the local overall, a FLOAT value
  app_es_result,  \* CLIPS env of app.py: the es_result facts, in fact order
  app_agenda,     \* CLIPS env of app.py: the activations
  app_stress_level, \* the returned stress_level
  triggered_rule  \* the returned triggered_rule

app_vars == << app_pc, app_responses, stress_scores, app_overall,
               app_es_result,
               app_agenda, app_stress_level, triggered_rule >>

(***************************************************************************)
(* src/project.py: RuleEngine, Student and the assess requests in flight   *)
(***************************************************************************)
VARIABLES
  procs,          \* the assess requests in flight
  rq_pc,          \* per request: control position in assess
  rq_raw,         \* per request: request.json["responses"], key -> text
  rq_responses,   \* per request: responses after int(), key -> value
  student,        \* per request: the Student of line 698
  run_i,          \* per request: position of the loop at line 549
  run_writes,     \* per request: writes of student.final_stress in this run
  triggered_rules, \* engine.triggered_rules, of the one global engine
  response_data,  \* per request: the response body
  run_mode,       \* per request: "first" or "again" (run on the same Student)
  prev_trace,     \* per request: triggered_rules after the first run
  prev_reasons    \* per request: student.section_reasons after the first run

rq_vars == << procs, rq_pc, rq_raw, rq_responses, student, run_i, run_writes,
              triggered_rules, response_data, run_mode, prev_trace,
              prev_reasons >>

(***************************************************************************)
(* src/project.py: the two score ladders applied to one mapping            *)
(***************************************************************************)
VARIABLES
  ld_pc,          \* "idle", "input", "scored" or "laddered"
  ld_responses,   \* the mapping responses, question -> answer
  ld_baseline,    \* the label score_action assigns to final_stress
  ld_level        \* the label of the ladder of evaluate_responses

ld_vars == << ld_pc, ld_responses, ld_baseline, ld_level >>

vars == << fc_vars, as_vars, app_vars, rq_vars, ld_vars >>

\* what a step of forward_chain leaves alone
not_fc_vars == << as_vars, app_vars, rq_vars, ld_vars >>

\* what a step of assess leaves alone
not_as_vars == << fc_vars, app_vars, rq_vars, ld_vars >>

\* what a step of run_inference_with_clips leaves alone
not_app_vars == << fc_vars, as_vars, rq_vars, ld_vars >>

\* what a step of RuleEngine.run and of its caller leaves alone
not_rq_vars == << fc_vars, as_vars, app_vars, ld_vars >>

\* what a step of the score ladders leaves alone
not_ld_vars == << fc_vars, as_vars, app_vars, rq_vars >>

\* no mapping has been given to the score ladders
LdIdle ==
  /\ ld_pc = "idle"
  /\ ld_responses = << >>
  /\ ld_baseline = ""
  /\ ld_level = ""

\* no request is in flight and the engine has not run
RqIdle ==
  /\ procs = {}
  /\ rq_pc = << >>
  /\ rq_raw = << >>
  /\ rq_responses = << >>
  /\ student = << >>
  /\ run_i = << >>
  /\ run_writes = << >>
  /\ triggered_rules = << >>
  /\ response_data = << >>
  /\ run_mode = << >>
  /\ prev_trace = << >>
  /\ prev_reasons = << >>

\* project.py:51-63, the recommendation facts asserted when the expert
\* system is built, in the order of the list
RecommendationFacts ==
  << [id |-> "rec_breaks", for_level |-> "high",
      text |-> "Take 5-10 minute breaks every hour of study."],
     [id |-> "rec_counselor", for_level |-> "high",
      text |-> "Consider discussing coping strategies with a counselor."],
     [id |-> "rec_sleep", for_level |-> "high",
      text |-> "Maintain regular sleep schedule, avoid screens 60 minutes before bed."],
     [id |-> "rec_time_block", for_level |-> "high",
      text |-> "Use time blocking for tasks with clear start and end times."],
     [id |-> "rec_plan", for_level |-> "moderate",
      text |-> "Plan 3-5 priority tasks weekly, break them into subtasks."],
     [id |-> "rec_exercise", for_level |-> "moderate",
      text |-> "Light exercise 3-4 times per week, 20-30 minutes each."],
     [id |-> "rec_peer", for_level |-> "moderate",
      text |-> "Study with peers or communicate regularly to reduce isolation."],
     [id |-> "rec_monitor", for_level |-> "low",
      text |-> "Maintain daily routine, record mood and sleep, review weekly."] >>

\* no request was answered before
NoResponse == [final |-> "", baseline |-> "", total |-> 0, max |-> 0]

\* run_inference_with_clips has not been called
AppIdle ==
  /\ app_pc = "idle"
  /\ app_responses = << >>
  /\ stress_scores = << >>
  /\ app_overall = [n |-> 0, d |-> 1]
  /\ app_es_result = << >>
  /\ app_agenda = << >>
  /\ app_stress_level = ""
  /\ triggered_rule = ""

\* forward_chain has not been called
FcIdle ==
  /\ initial_facts = {}
  /\ facts = {}
  /\ changed = FALSE
  /\ fc_i = 0
  /\ fc_pc = "idle"
  /\ passes = 0
  /\ pass_base = {}
  /\ fc_mode = "first"
  /\ prev_input = {}
  /\ prev_result = {}
  /\ ev_level = ""
  /\ ev_recs = << >>
  /\ ev_recommendations = << >>
  /\ prev_level = ""

\* no assess request has been made
AsIdle ==
  /\ as_pc = "idle"
  /\ responses = << >>
  /\ other_n = 0
  /\ other_sum = 0
  /\ resp_i = 0
  /\ student_final_stress = "Low"
  /\ wm_symptom = {}
  /\ wm_metric = {}
  /\ wm_overall_set = {}
  /\ es_result = << >>
  /\ agenda = << >>
  /\ fired = << >>
  /\ scan_level = "Undetermined"
  /\ stress_level = "Undetermined"
  /\ final_stress = ""
  /\ final_stress_display = ""
  /\ as_mode = "first"
  /\ prev_symptom = {}
  /\ prev_es_result = {}
  /\ wm_recommendation = RecommendationFacts
  /\ recommendations = << >>
  /\ prev_response = NoResponse

\* the symptom lists the calls are made with
InitialFactSets == { S \in SUBSET SYMPTOMS : Cardinality(S) <= MaxInitial }

ExtraFactSets == { S \in SUBSET SYMPTOMS : Cardinality(S) <= MaxExtra }

\* sample.py:64, `conclusion in facts`
AlreadyHeld_never(conclusion, fs) == FALSE

\* sample.py:64, with the conclusion looked up in the argument
AlreadyHeld_initial(conclusion, fs) == conclusion \in initial_facts

AlreadyHeld(conclusion, fs) == conclusion \in fs

\* sample.py:66, with the conditions read from the argument, not the local set
CondsHold_snapshot(conditions, fs) ==
  \A k \in 1..Len(conditions) : conditions[k] \in initial_facts

\* sample.py:66, with the test inverted
CondsHold_inverted(conditions, fs) ==
  ~ (\A k \in 1..Len(conditions) : conditions[k] \in fs)

\* sample.py:66, `all(cond in facts for cond in conditions)`
CondsHold(conditions, fs) ==
  \A k \in 1..Len(conditions) : conditions[k] \in fs

\* sample.py:63, the last position of `for ... in RULES`
LastRule == Len(RULES)

\* sample.py:67 with the set replaced by the conclusion
AddFact_replace(fs, conclusion) == { conclusion }

\* sample.py:67, facts.add(conclusion)
AddFact(fs, conclusion) == fs \cup { conclusion }

\* sample.py:68, with the flag left unset
ChangedAfterAdd_unset == changed

\* sample.py:68, `changed = True`
ChangedAfterAdd == TRUE

InitFC ==
  /\ initial_facts \in InitialFactSets
  /\ facts = {}
  /\ changed = FALSE
  /\ fc_i = 0
  /\ fc_pc = "call"
  /\ passes = 0
  /\ pass_base = {}
  /\ fc_mode = "first"
  /\ prev_input = {}
  /\ prev_result = {}
  /\ ev_level = ""
  /\ ev_recs = << >>
  /\ ev_recommendations = << >>
  /\ prev_level = ""
  /\ AsIdle
  /\ AppIdle
  /\ RqIdle
  /\ LdIdle

\* sample.py:59-60
FcEnter ==
  /\ fc_pc = "call"
  /\ facts' = initial_facts
  /\ changed' = TRUE
  /\ fc_pc' = "while"
  /\ passes' = 0
  /\ pass_base' = initial_facts
  /\ UNCHANGED << initial_facts, fc_i, fc_mode, prev_input, prev_result >>
  /\ UNCHANGED ev_vars
  /\ UNCHANGED not_fc_vars

\* sample.py:61-62, the loop test holds and a pass starts
FcPassStart ==
  /\ fc_pc = "while"
  /\ changed
  /\ changed' = FALSE
  /\ fc_i' = 1
  /\ fc_pc' = "for"
  /\ passes' = IF passes < MaxPasses THEN passes + 1 ELSE passes
  /\ pass_base' = facts
  /\ UNCHANGED << initial_facts, facts, fc_mode, prev_input, prev_result >>
  /\ UNCHANGED ev_vars
  /\ UNCHANGED not_fc_vars

\* sample.py:61 and 69, the loop test fails and the set is returned
FcReturn ==
  /\ fc_pc = "while"
  /\ ~ changed
  /\ fc_pc' = "done"
  /\ UNCHANGED << initial_facts, facts, changed, fc_i, passes, pass_base,
                  fc_mode, prev_input, prev_result >>
  /\ UNCHANGED ev_vars
  /\ UNCHANGED not_fc_vars

\* the for loop moves to the next rule, or to the loop test after the last
FcAdvance ==
  /\ fc_i' = fc_i + 1
  /\ fc_pc' = IF fc_i >= LastRule THEN "while" ELSE "for"

\* sample.py:64-65, the conclusion is already held
FcSkip ==
  /\ fc_pc = "for"
  /\ AlreadyHeld(RULES[fc_i].conclusion, facts)
  /\ FcAdvance
  /\ UNCHANGED << initial_facts, facts, changed, passes, pass_base,
                  fc_mode, prev_input, prev_result >>
  /\ UNCHANGED ev_vars
  /\ UNCHANGED not_fc_vars

\* sample.py:66-68, the rule fires
FcAssert ==
  /\ fc_pc = "for"
  /\ ~ AlreadyHeld(RULES[fc_i].conclusion, facts)
  /\ CondsHold(RULES[fc_i].conditions, facts)
  /\ facts' = AddFact(facts, RULES[fc_i].conclusion)
  /\ changed' = ChangedAfterAdd
  /\ FcAdvance
  /\ UNCHANGED << initial_facts, passes, pass_base, fc_mode, prev_input,
                  prev_result >>
  /\ UNCHANGED ev_vars
  /\ UNCHANGED not_fc_vars

\* sample.py:66, some condition is not held
FcNoMatch ==
  /\ fc_pc = "for"
  /\ ~ AlreadyHeld(RULES[fc_i].conclusion, facts)
  /\ ~ CondsHold(RULES[fc_i].conditions, facts)
  /\ FcAdvance
  /\ UNCHANGED << initial_facts, facts, changed, passes, pass_base,
                  fc_mode, prev_input, prev_result >>
  /\ UNCHANGED ev_vars
  /\ UNCHANGED not_fc_vars

\* forward_chain is called again, on the set it returned
FcCallOnClosure ==
  /\ fc_pc = "done"
  /\ fc_mode = "first"
  /\ prev_input' = initial_facts
  /\ prev_result' = facts
  /\ initial_facts' = facts
  /\ fc_mode' = "closure"
  /\ fc_pc' = "call"
  /\ UNCHANGED << facts, changed, fc_i, passes, pass_base >>
  /\ UNCHANGED ev_vars
  /\ UNCHANGED not_fc_vars

\* forward_chain is called again, with more symptoms selected
FcCallOnSuperset ==
  /\ fc_pc = "done"
  /\ fc_mode = "first"
  /\ \E extra \in ExtraFactSets :
       /\ extra \cap initial_facts = {}
       /\ extra # {}
       /\ initial_facts' = initial_facts \cup extra
  /\ prev_input' = initial_facts
  /\ prev_result' = facts
  /\ fc_mode' = "superset"
  /\ fc_pc' = "call"
  /\ UNCHANGED << facts, changed, fc_i, passes, pass_base >>
  /\ UNCHANGED ev_vars
  /\ UNCHANGED not_fc_vars

\* one call of forward_chain
FcStep ==
  \/ FcEnter
  \/ FcPassStart
  \/ FcReturn
  \/ FcSkip
  \/ FcAssert
  \/ FcNoMatch

NextFC ==
  \/ FcStep
  \/ FcCallOnClosure
  \/ FcCallOnSuperset

SpecFC == InitFC /\ [][NextFC]_vars

\* sample.py:72-80, with the test of stress_low left out
classify_stress_nolow(fs) ==
  IF "stress_high" \in fs THEN "high"
  ELSE IF "stress_moderate" \in fs THEN "moderate"
  ELSE "undetermined"

\* sample.py:72-80, with the tests in the opposite order
classify_stress_lowfirst(fs) ==
  IF "stress_low" \in fs THEN "low"
  ELSE IF "stress_moderate" \in fs THEN "moderate"
  ELSE IF "stress_high" \in fs THEN "high"
  ELSE "undetermined"

\* sample.py:72-80
classify_stress(fs) ==
  IF "stress_high" \in fs THEN "high"
  ELSE IF "stress_moderate" \in fs THEN "moderate"
  ELSE IF "stress_low" \in fs THEN "low"
  ELSE "undetermined"

\* sample.py:28-40, the entries of the rec_ conclusions; the texts stand
\* for the texts of the source, one for each key
EXPLANATIONS ==
  [ rec_breaks |-> "text of rec_breaks",
    rec_counselor |-> "text of rec_counselor",
    rec_sleep |-> "text of rec_sleep",
    rec_time_block |-> "text of rec_time_block",
    rec_plan |-> "text of rec_plan",
    rec_exercise |-> "text of rec_exercise",
    rec_peer |-> "text of rec_peer",
    rec_monitor |-> "text of rec_monitor" ]

\* sample.py:87, with a prefix no fact has
IsRec_none(fact) == FALSE

\* sample.py:87, fact.startswith("rec_")
IsRec(fact) == fact \in DOMAIN EXPLANATIONS

\* the orders in which the facts of a set can be put in a list
ListsOf(S) ==
  { f \in [1..Cardinality(S) -> S] :
      \A i, j \in 1..Cardinality(S) : i # j => f[i] # f[j] }

\* sample.py:85-92, evaluate after forward_chain has returned: the level,
\* the rec_ facts in the order the iteration over the set gives them (it
\* follows the hashes of the strings, any order here) and their texts
FcEvaluate ==
  /\ fc_pc = "done"
  /\ ev_level' = classify_stress(facts)
  /\ ev_recs' \in ListsOf({ fact \in facts : IsRec(fact) })
  /\ ev_recommendations' =
       [k \in 1..Len(ev_recs') |-> EXPLANATIONS[ev_recs'[k]]]
  /\ fc_pc' = "evaluated"
  /\ UNCHANGED << initial_facts, facts, changed, fc_i, passes, pass_base,
                  fc_mode, prev_input, prev_result, prev_level >>
  /\ UNCHANGED not_fc_vars

\* evaluate is called again, with more symptoms selected, up to MaxInitial
EvalCallOnSuperset ==
  /\ fc_pc = "evaluated"
  /\ fc_mode = "first"
  /\ \E extra \in ExtraFactSets :
       /\ extra \cap initial_facts = {}
       /\ extra # {}
       /\ Cardinality(initial_facts \cup extra) <= MaxInitial
       /\ initial_facts' = initial_facts \cup extra
  /\ prev_input' = initial_facts
  /\ prev_result' = facts
  /\ prev_level' = ev_level
  /\ ev_level' = ""
  /\ ev_recs' = << >>
  /\ ev_recommendations' = << >>
  /\ fc_mode' = "superset"
  /\ fc_pc' = "call"
  /\ UNCHANGED << facts, changed, fc_i, passes, pass_base >>
  /\ UNCHANGED not_fc_vars

\* the calls of evaluate
NextEval ==
  \/ FcStep
  \/ FcEvaluate
  \/ EvalCallOnSuperset

SpecEval == InitFC /\ [][NextEval]_vars

\* one call, which is never preempted for ever
SpecFCFair == InitFC /\ [][FcStep]_vars /\ WF_vars(FcStep)

(***************************************************************************)
(* src/project.py: the CLIPS rule base of CLIPSExpertSystem                *)
(***************************************************************************)
\* largest number of answers that yield a symptom in one request
MaxAnswers == 3
\* number of the other answers of a request that has any
NumOther == 17

\* a FLOAT slot value, the number n/d with d > 0
Num(n, d) == [n |-> n, d |-> d]

Lt(a, b) == a.n * b.d < b.n * a.d

Gt(a, b) == Lt(b, a)

Geq(a, b) == ~ Lt(a, b)

Leq(a, b) == ~ Lt(b, a)

\* project.py:357-398
symptom_mapping ==
  [ sleep_quality          |-> [v \in {4, 5} |-> "poor_sleep"],
    irritability           |-> [v \in {4, 5} |-> "irritability"],
    study_load             |-> [v \in {4, 5} |-> "deadline_pressure"],
    depression             |-> [v \in {4, 5} |-> "persistent_fatigue"],
    academic_performance   |-> [v \in {4, 5} |-> "difficulty_concentrating"],
    basic_needs            |-> [v \in {4, 5} |-> "skip_meals"],
    anxiety_level          |-> [v \in {4, 5} |-> "racing_thoughts"],
    future_career_concerns |-> [v \in {4, 5} |-> "procrastination"],
    social_support         |-> [v \in {1, 2} |-> "social_withdrawal"],
    peer_pressure          |-> [v \in {1, 2} |-> "minor_worry_only"] ]

\* no symptom pattern, no assertion
None == {}

\* project.py:68-348, the defrules.  pos and neg are the names of the
\* symptom patterns and of the negated symptom patterns of the left-hand
\* side; symptom, overall, result and is_set are what the right-hand side
\* asserts (the explanation slot of es_result is fixed by its rule slot).
\* The metric patterns and tests of a left-hand side are in RuleMatches.
ClipsRules ==
  { [name |-> "high-stress-symptom-1",
     pos |-> {"poor_sleep", "irritability", "deadline_pressure"},
     neg |-> None, symptom |-> {"stress_high_indicator"}, overall |-> None,
     result |-> {[level |-> "high_risk", rule |-> "high-stress-symptom-1"]},
     is_set |-> None],
    [name |-> "high-stress-symptom-2",
     pos |-> {"persistent_fatigue", "difficulty_concentrating"},
     neg |-> None, symptom |-> {"stress_high_indicator"}, overall |-> None,
     result |-> {[level |-> "high_risk", rule |-> "high-stress-symptom-2"]},
     is_set |-> None],
    [name |-> "high-stress-symptom-3",
     pos |-> {"skip_meals", "racing_thoughts"},
     neg |-> None, symptom |-> {"stress_high_indicator"}, overall |-> None,
     result |-> {[level |-> "high_risk", rule |-> "high-stress-symptom-3"]},
     is_set |-> None],
    [name |-> "moderate-stress-symptom-1",
     pos |-> {"procrastination", "deadline_pressure"},
     neg |-> {"stress_high_indicator"},
     symptom |-> {"stress_moderate_indicator"}, overall |-> None,
     result |-> {[level |-> "moderate_risk",
                  rule |-> "moderate-stress-symptom-1"]},
     is_set |-> None],
    [name |-> "moderate-stress-symptom-2",
     pos |-> {"social_withdrawal", "irritability"},
     neg |-> {"stress_high_indicator"},
     symptom |-> {"stress_moderate_indicator"}, overall |-> None,
     result |-> {[level |-> "moderate_risk",
                  rule |-> "moderate-stress-symptom-2"]},
     is_set |-> None],
    [name |-> "low-stress-symptom",
     pos |-> {"minor_worry_only"},
     neg |-> {"stress_high_indicator", "stress_moderate_indicator"},
     symptom |-> {"stress_low_indicator"}, overall |-> None,
     result |-> {[level |-> "low_risk", rule |-> "low-stress-symptom"]},
     is_set |-> None],
    [name |-> "overall-high-stress",
     pos |-> {"stress_high_indicator"}, neg |-> None,
     symptom |-> None, overall |-> {Num(40, 10)},
     result |-> {[level |-> "very_high", rule |-> "overall-high-stress"]},
     is_set |-> None],
    [name |-> "overall-moderate-stress",
     pos |-> {"stress_moderate_indicator"},
     neg |-> {"stress_high_indicator"},
     symptom |-> None, overall |-> {Num(25, 10)},
     result |-> {[level |-> "moderate", rule |-> "overall-moderate-stress"]},
     is_set |-> None],
    [name |-> "overall-low-stress",
     pos |-> {"stress_low_indicator"},
     neg |-> {"stress_high_indicator", "stress_moderate_indicator"},
     symptom |-> None, overall |-> {Num(15, 10)},
     result |-> {[level |-> "low", rule |-> "overall-low-stress"]},
     is_set |-> None],
    [name |-> "check-overall-not-set", pos |-> None, neg |-> None,
     symptom |-> None, overall |-> None, result |-> None,
     is_set |-> {"FALSE"}],
    [name |-> "check-overall-set", pos |-> None, neg |-> None,
     symptom |-> None, overall |-> None, result |-> None,
     is_set |-> {"TRUE"}],
    [name |-> "fallback-very-high-stress", pos |-> None, neg |-> None,
     symptom |-> None, overall |-> {Num(40, 10)},
     result |-> {[level |-> "very_high", rule |-> "fallback-score-very-high"]},
     is_set |-> None],
    [name |-> "fallback-high-stress", pos |-> None, neg |-> None,
     symptom |-> None, overall |-> {Num(30, 10)},
     result |-> {[level |-> "high", rule |-> "fallback-score-high"]},
     is_set |-> None],
    [name |-> "fallback-moderate-stress", pos |-> None, neg |-> None,
     symptom |-> None, overall |-> {Num(20, 10)},
     result |-> {[level |-> "moderate", rule |-> "fallback-score-moderate"]},
     is_set |-> None],
    [name |-> "fallback-low-stress", pos |-> None, neg |-> None,
     symptom |-> None, overall |-> {Num(10, 10)},
     result |-> {[level |-> "low", rule |-> "fallback-score-low"]},
     is_set |-> None],
    [name |-> "rule-very-high-overall", pos |-> None, neg |-> None,
     symptom |-> None, overall |-> None,
     result |-> {[level |-> "very_high", rule |-> "rule-very-high-overall"]},
     is_set |-> None],
    [name |-> "rule-high-overall", pos |-> None, neg |-> None,
     symptom |-> None, overall |-> None,
     result |-> {[level |-> "high", rule |-> "rule-high-overall"]},
     is_set |-> None],
    [name |-> "rule-moderate-overall", pos |-> None, neg |-> None,
     symptom |-> None, overall |-> None,
     result |-> {[level |-> "moderate", rule |-> "rule-moderate-overall"]},
     is_set |-> None],
    [name |-> "rule-low-overall", pos |-> None, neg |-> None,
     symptom |-> None, overall |-> None,
     result |-> {[level |-> "low", rule |-> "rule-low-overall"]},
     is_set |-> None] }

\* the rule of the given name
RuleNamed(name) == CHOOSE r \in ClipsRules : r.name = name

\* project.py:68-197, the rules whose left-hand side has symptom patterns only
SymptomPatternRules ==
  { "high-stress-symptom-1", "high-stress-symptom-2", "high-stress-symptom-3",
    "moderate-stress-symptom-1", "moderate-stress-symptom-2",
    "low-stress-symptom", "overall-high-stress", "overall-moderate-stress",
    "overall-low-stress" }

FallbackRuleNames ==
  { "fallback-very-high-stress", "fallback-high-stress",
    "fallback-moderate-stress", "fallback-low-stress" }

RangeRuleNames ==
  { "rule-very-high-overall", "rule-high-overall", "rule-moderate-overall",
    "rule-low-overall" }

\* project.py:247 and 262 with the lower limits included
FallbackTest_closed(name, tv, mv) ==
  /\ mv.n # 0
  /\ LET ratio == Num(tv.n * mv.d, tv.d * mv.n)
     IN  CASE name = "fallback-very-high-stress" -> Gt(ratio, Num(8, 10))
           [] name = "fallback-high-stress" ->
                Geq(ratio, Num(6, 10)) /\ Leq(ratio, Num(8, 10))
           [] name = "fallback-moderate-stress" ->
                Geq(ratio, Num(4, 10)) /\ Leq(ratio, Num(6, 10))
           [] name = "fallback-low-stress" -> Leq(ratio, Num(4, 10))

\* project.py:232, 247, 262, 277: the test of a fallback rule on
\* (/ ?tv ?mv).  A zero ?mv is a division error and the test does not hold.
FallbackTest(name, tv, mv) ==
  /\ mv.n # 0
  /\ LET ratio == Num(tv.n * mv.d, tv.d * mv.n)
     IN  CASE name = "fallback-very-high-stress" -> Gt(ratio, Num(8, 10))
           [] name = "fallback-high-stress" ->
                Gt(ratio, Num(6, 10)) /\ Leq(ratio, Num(8, 10))
           [] name = "fallback-moderate-stress" ->
                Gt(ratio, Num(4, 10)) /\ Leq(ratio, Num(6, 10))
           [] name = "fallback-low-stress" -> Leq(ratio, Num(4, 10))

\* project.py:317 with the upper limit included
RangeTest_closed(name, v) ==
  CASE name = "rule-very-high-overall" -> Geq(v, Num(40, 10))
    [] name = "rule-high-overall" ->
         Geq(v, Num(30, 10)) /\ Leq(v, Num(40, 10))
    [] name = "rule-moderate-overall" ->
         Geq(v, Num(20, 10)) /\ Lt(v, Num(30, 10))
    [] name = "rule-low-overall" -> Lt(v, Num(20, 10))

\* project.py:305, 317, 329, 341: the test of a range rule on ?v
RangeTest(name, v) ==
  CASE name = "rule-very-high-overall" -> Geq(v, Num(40, 10))
    [] name = "rule-high-overall" ->
         Geq(v, Num(30, 10)) /\ Lt(v, Num(40, 10))
    [] name = "rule-moderate-overall" ->
         Geq(v, Num(20, 10)) /\ Lt(v, Num(30, 10))
    [] name = "rule-low-overall" -> Lt(v, Num(20, 10))

\* an activation of a rule that matched no overall metric fact
NoValue == Num(0, 1)

\* the values of the metric facts of the given name
MetricValues(met, name) == { m.value : m \in { x \in met : x.name = name } }

\* project.py:68-108 with the negated patterns of low-stress-symptom copied
\* into the high-stress-symptom rules
NegPatterns_copied(r) ==
  IF r.symptom = {"stress_high_indicator"}
    THEN {"stress_moderate_indicator", "stress_low_indicator"}
    ELSE r.neg

\* the negated symptom patterns of the left-hand side of a rule
NegPatterns(r) == r.neg

\* no fact matches a negated symptom pattern of the rule
NegHolds(r, sym) == NegPatterns(r) \cap sym = {}

\* The activations the rule base has for a working memory: one per rule
\* and per combination of facts that satisfies its left-hand side.
RuleMatches(sym, met) ==
  LET overall == MetricValues(met, "overall")
      total == MetricValues(met, "total_score")
      max == MetricValues(met, "max_score")
  IN  { [rule |-> n, v |-> NoValue] :
          n \in { x \in SymptomPatternRules :
                    /\ RuleNamed(x).pos \subseteq sym
                    /\ NegHolds(RuleNamed(x), sym) } }
      \cup (IF overall = {}
              THEN { [rule |-> "check-overall-not-set", v |-> NoValue] }
              ELSE {})
      \cup { [rule |-> "check-overall-set", v |-> o] : o \in overall }
      \cup { [rule |-> n, v |-> NoValue] :
               n \in { x \in FallbackRuleNames :
                         /\ overall = {}
                         /\ \E tv \in total, mv \in max :
                              FallbackTest(x, tv, mv) } }
      \cup { [rule |-> a[1], v |-> a[2]] :
               a \in { x \in RangeRuleNames \X overall :
                         RangeTest(x[1], x[2]) } }

\* the orders in which the activations of a set can be put on the agenda
Orders(S) ==
  { f \in [1..Cardinality(S) -> S] :
      \A i, j \in 1..Cardinality(S) : i # j => f[i] # f[j] }

\* The agendas after an assertion that takes the working memory from
\* (sym, met) to (sym2, met2).  Depth strategy, all saliences 0: the new
\* activations go on top, in an order the rule network fixes (any order
\* here); activations whose left-hand side no longer holds are removed.
AgendasAfter(ag, sym, met, sym2, met2) ==
  LET now == RuleMatches(sym2, met2)
      new == now \ RuleMatches(sym, met)
      kept == SelectSeq(ag, LAMBDA a : a \in now)
  IN  { o \o kept : o \in Orders(new) }

\* es_result facts after asserting those of a right-hand side; a duplicate
\* fact is not asserted again
ResultsAfter(es, rs) ==
  IF rs = {} \/ (\E k \in 1..Len(es) : es[k] \in rs)
    THEN es
    ELSE Append(es, CHOOSE r \in rs : TRUE)

\* project.py:437-445
level_mapping ==
  [ very_high |-> 4, high |-> 3, moderate |-> 2, low |-> 1,
    high_risk |-> 4, moderate_risk |-> 3, low_risk |-> 2 ]

\* project.py:448-449, level_mapping.get(key, 0)
LevelPriority(key) ==
  IF key \in DOMAIN level_mapping THEN level_mapping[key] ELSE 0

\* project.py:452, level.replace("_risk", "").title()
LevelTitle(level) ==
  CASE level = "very_high" -> "Very_High"
    [] level \in {"high", "high_risk"} -> "High"
    [] level \in {"moderate", "moderate_risk"} -> "Moderate"
    [] level \in {"low", "low_risk"} -> "Low"

\* project.py:427-452, the loop over the es_result facts in fact order
RECURSIVE ScanLevels(_, _)
ScanLevels(es, current) ==
  IF es = << >>
    THEN current
    ELSE LET level == Head(es).level
             current_priority == LevelPriority(current)
             new_priority == LevelPriority(level)
         IN  ScanLevels(Tail(es),
                        IF new_priority > current_priority
                          THEN LevelTitle(level)
                          ELSE current)

\* project.py:468, results["stress_level"].lower()
Lower(label) ==
  CASE label = "Undetermined" -> "undetermined"
    [] label = "Very_High" -> "very_high"
    [] label = "High" -> "high"
    [] label = "Moderate" -> "moderate"
    [] label = "Low" -> "low"

\* `a in b` for the texts of for_level and of the lowered labels
IsSubstring(a, b) == a = b \/ (a = "high" /\ b = "very_high")

\* project.py:468-473, the texts of the recommendation facts held whose
\* for_level is in the lowered label or holds it, in fact order
RecommendationsFor(label, recs) ==
  LET stress_level_lower == Lower(label)
      hits == SelectSeq(recs,
                LAMBDA f : \/ IsSubstring(f.for_level, stress_level_lower)
                           \/ IsSubstring(stress_level_lower, f.for_level))
  IN  [k \in 1..Len(hits) |-> hits[k].text]

\* project.py:475-485 with the label left as it is for a zero max_score
ScoreLadder_undetermined(total, max) ==
  IF max = 0 THEN "Undetermined"
  ELSE IF 10 * total > 8 * max THEN "Very High"
  ELSE IF 10 * total > 6 * max THEN "High"
  ELSE IF 10 * total > 4 * max THEN "Moderate"
  ELSE "Low"

\* project.py:477-485 with a zero max_score not set apart and the limits
\* included
ScoreLadder_unguarded(total, max) ==
  IF 10 * total >= 8 * max THEN "Very High"
  ELSE IF 10 * total >= 6 * max THEN "High"
  ELSE IF 10 * total >= 4 * max THEN "Moderate"
  ELSE "Low"

\* project.py:475-485, the ladder on total_score / max_score
ScoreLadder(total, max) ==
  IF max > 0 /\ 10 * total > 8 * max THEN "Very High"
  ELSE IF max > 0 /\ 10 * total > 6 * max THEN "High"
  ELSE IF max > 0 /\ 10 * total > 4 * max THEN "Moderate"
  ELSE "Low"

RECURSIVE SumAnswers(_)
SumAnswers(rs) == IF rs = << >> THEN 0 ELSE Head(rs)[2] + SumAnswers(Tail(rs))

\* project.py:407, sum(responses.values())
TotalScore == SumAnswers(responses) + other_sum

\* project.py:408, len(responses) * 5
MaxScore == (Len(responses) + other_n) * 5

\* project.py:662-673 with the limits included
ScoreAction_closed(total) ==
  IF total >= 80 THEN "Very High"
  ELSE IF total >= 60 THEN "High"
  ELSE IF total >= 40 THEN "Moderate"
  ELSE "Low"

\* project.py:662-673, score_action
ScoreAction(total) ==
  IF total > 80 THEN "Very High"
  ELSE IF total > 60 THEN "High"
  ELSE IF total > 40 THEN "Moderate"
  ELSE "Low"

\* project.py:706-709 with the branches exchanged
Reconcile_baseline(clips_level, baseline) ==
  IF clips_level # "Undetermined" THEN baseline ELSE clips_level

\* project.py:705-709
Reconcile(clips_level, baseline) ==
  IF clips_level # "Undetermined" THEN clips_level ELSE baseline

\* project.py:712-721
level_display ==
  ("Very_High" :> "Very High") @@ ("High" :> "High")
    @@ ("Moderate" :> "Moderate") @@ ("Low" :> "Low")
    @@ ("Very High" :> "Very High")

\* project.py:722, level_display.get(final_stress.replace(" ", "_"),
\* final_stress)
LevelDisplay(label) ==
  LET key == IF label = "Very High" THEN "Very_High" ELSE label
  IN  IF key \in DOMAIN level_display THEN level_display[key] ELSE label

(***************************************************************************)
(* src/project.py: assess and CLIPSExpertSystem.evaluate_responses         *)
(***************************************************************************)
\* the questions of symptom_mapping, each with an answer that yields its
\* symptom
SymptomAnswer(q) == IF 5 \in DOMAIN symptom_mapping[q] THEN 5 ELSE 1

\* the orders in which up to MaxAnswers such questions are answered
QuestionSeqs ==
  { qs \in UNION { [1..k -> DOMAIN symptom_mapping] : k \in 0..MaxAnswers } :
      \A i, j \in 1..Len(qs) : i # j => qs[i] # qs[j] }

\* project.py:689-695, the request body
InitAssess ==
  /\ as_pc = "request"
  /\ \E qs \in QuestionSeqs :
       responses = [i \in 1..Len(qs) |-> << qs[i], SymptomAnswer(qs[i]) >>]
  /\ other_n \in {0, NumOther}
  /\ \E u \in 1..5 : other_sum = other_n * u
  /\ resp_i = 0
  /\ student_final_stress = "Low"
  /\ wm_symptom = {}
  /\ wm_metric = {}
  /\ wm_overall_set = {}
  /\ es_result = << >>
  /\ agenda = << >>
  /\ fired = << >>
  /\ scan_level = "Undetermined"
  /\ stress_level = "Undetermined"
  /\ final_stress = ""
  /\ final_stress_display = ""
  /\ as_mode = "first"
  /\ prev_symptom = {}
  /\ prev_es_result = {}
  /\ wm_recommendation = RecommendationFacts
  /\ recommendations = << >>
  /\ prev_response = NoResponse
  /\ FcIdle
  /\ AppIdle
  /\ RqIdle
  /\ LdIdle

\* project.py:697-699, Student(name, responses) and engine.run(student):
\* score_action writes student.final_stress
AssessEngineRun ==
  /\ as_pc = "request"
  /\ student_final_stress' = ScoreAction(TotalScore)
  /\ as_pc' = "reset"
  /\ UNCHANGED << responses, other_n, other_sum, resp_i, wm_symptom,
                  wm_metric, wm_overall_set, es_result, agenda, fired,
                  scan_level, stress_level, final_stress,
                  final_stress_display, as_mode, prev_symptom,
                  prev_es_result >>
  /\ UNCHANGED << wm_recommendation, recommendations, prev_response >>
  /\ UNCHANGED not_as_vars

\* project.py:354, env.reset(): the facts are removed and the rules that
\* match the empty working memory are activated
ClipsReset ==
  /\ as_pc = "reset"
  /\ wm_symptom' = {}
  /\ wm_metric' = {}
  /\ wm_overall_set' = {}
  /\ es_result' = << >>
  /\ fired' = << >>
  /\ agenda' \in Orders(RuleMatches({}, {}))
  /\ resp_i' = 1
  /\ scan_level' = "Undetermined"
  /\ stress_level' = "Undetermined"
  /\ as_pc' = IF Len(responses) = 0 THEN "total" ELSE "symptoms"
  /\ UNCHANGED << responses, other_n, other_sum, student_final_stress,
                  final_stress, final_stress_display, as_mode, prev_symptom,
                  prev_es_result >>
  /\ wm_recommendation' = << >>
  /\ recommendations' = << >>
  /\ UNCHANGED prev_response
  /\ UNCHANGED not_as_vars

\* project.py:401-404, one turn of the loop over responses.items()
ClipsAssertSymptom ==
  /\ as_pc = "symptoms"
  /\ LET question == responses[resp_i][1]
         value == responses[resp_i][2]
         sym2 == IF /\ question \in DOMAIN symptom_mapping
                    /\ value \in DOMAIN symptom_mapping[question]
                   THEN wm_symptom \cup { symptom_mapping[question][value] }
                   ELSE wm_symptom
     IN  /\ wm_symptom' = sym2
         /\ agenda' \in AgendasAfter(agenda, wm_symptom, wm_metric,
                                     sym2, wm_metric)
  /\ resp_i' = resp_i + 1
  /\ as_pc' = IF resp_i = Len(responses) THEN "total" ELSE "symptoms"
  /\ UNCHANGED << responses, other_n, other_sum, student_final_stress,
                  wm_metric, wm_overall_set, es_result, fired, scan_level,
                  stress_level, final_stress, final_stress_display, as_mode,
                  prev_symptom, prev_es_result >>
  /\ UNCHANGED << wm_recommendation, recommendations, prev_response >>
  /\ UNCHANGED not_as_vars

\* the metric fact of the given name and value is asserted
ClipsAssertMetric(name, value) ==
  LET met2 == wm_metric \cup { [name |-> name, value |-> value] }
  IN  /\ wm_metric' = met2
      /\ agenda' \in AgendasAfter(agenda, wm_symptom, wm_metric,
                                  wm_symptom, met2)

\* project.py:407 and 409; the value is taken as the number it denotes
ClipsAssertTotal ==
  /\ as_pc = "total"
  /\ ClipsAssertMetric("total_score", Num(TotalScore, 1))
  /\ as_pc' = "max"
  /\ UNCHANGED << responses, other_n, other_sum, resp_i,
                  student_final_stress, wm_symptom, wm_overall_set,
                  es_result, fired, scan_level, stress_level, final_stress,
                  final_stress_display, as_mode, prev_symptom,
                  prev_es_result >>
  /\ UNCHANGED << wm_recommendation, recommendations, prev_response >>
  /\ UNCHANGED not_as_vars

\* project.py:408 and 410
ClipsAssertMax ==
  /\ as_pc = "max"
  /\ ClipsAssertMetric("max_score", Num(MaxScore, 1))
  /\ as_pc' = "run"
  /\ UNCHANGED << responses, other_n, other_sum, resp_i,
                  student_final_stress, wm_symptom, wm_overall_set,
                  es_result, fired, scan_level, stress_level, final_stress,
                  final_stress_display, as_mode, prev_symptom,
                  prev_es_result >>
  /\ UNCHANGED << wm_recommendation, recommendations, prev_response >>
  /\ UNCHANGED not_as_vars

\* project.py:413, env.run(): the first activation of the agenda fires and
\* its right-hand side asserts its facts
ClipsFire ==
  /\ as_pc = "run"
  /\ agenda # << >>
  /\ LET a == Head(agenda)
         r == RuleNamed(a.rule)
         sym2 == wm_symptom \cup r.symptom
         met2 == wm_metric
                   \cup { [name |-> "overall", value |-> v] : v \in r.overall }
     IN  /\ wm_symptom' = sym2
         /\ wm_metric' = met2
         /\ wm_overall_set' = wm_overall_set \cup r.is_set
         /\ es_result' = ResultsAfter(es_result, r.result)
         /\ fired' = Append(fired, a)
         /\ agenda' \in AgendasAfter(Tail(agenda), wm_symptom, wm_metric,
                                     sym2, met2)
  /\ UNCHANGED << as_pc, responses, other_n, other_sum, resp_i,
                  student_final_stress, scan_level, stress_level,
                  final_stress, final_stress_display, as_mode, prev_symptom,
                  prev_es_result >>
  /\ UNCHANGED << wm_recommendation, recommendations, prev_response >>
  /\ UNCHANGED not_as_vars

\* project.py:413-487, env.run() returns on the empty agenda and the
\* results are collected
ClipsCollect ==
  /\ as_pc = "run"
  /\ agenda = << >>
  /\ LET scanned == ScanLevels(es_result, "Undetermined")
     IN  /\ scan_level' = scanned
         /\ recommendations' = RecommendationsFor(scanned, wm_recommendation)
         /\ stress_level' = IF scanned = "Undetermined"
                              THEN ScoreLadder(TotalScore, MaxScore)
                              ELSE scanned
  /\ as_pc' = "returned"
  /\ UNCHANGED << responses, other_n, other_sum, resp_i,
                  student_final_stress, wm_symptom, wm_metric,
                  wm_overall_set, es_result, agenda, fired, final_stress,
                  final_stress_display, as_mode, prev_symptom,
                  prev_es_result >>
  /\ UNCHANGED << wm_recommendation, prev_response >>
  /\ UNCHANGED not_as_vars

\* project.py:704-722
AssessReconcile ==
  /\ as_pc = "returned"
  /\ final_stress' = Reconcile(stress_level, student_final_stress)
  /\ final_stress_display' = LevelDisplay(final_stress')
  /\ as_pc' = "done"
  /\ UNCHANGED << responses, other_n, other_sum, resp_i,
                  student_final_stress, wm_symptom, wm_metric,
                  wm_overall_set, es_result, agenda, fired, scan_level,
                  stress_level, as_mode, prev_symptom, prev_es_result >>
  /\ UNCHANGED << wm_recommendation, recommendations, prev_response >>
  /\ UNCHANGED not_as_vars

\* A second request: the answers of the first with one more answer that
\* yields a symptom, put anywhere in the order, and the other answers
\* changed so that total_score and max_score are those of the first.
AssessSuperset ==
  /\ as_pc = "done"
  /\ as_mode = "first"
  /\ Len(responses) < MaxAnswers
  /\ \E q \in DOMAIN symptom_mapping, at \in 0..Len(responses) :
       /\ \A k \in 1..Len(responses) : responses[k][1] # q
       /\ other_n >= 1
       /\ other_n - 1 <= other_sum - SymptomAnswer(q)
       /\ other_sum - SymptomAnswer(q) <= 5 * (other_n - 1)
       /\ responses' = SubSeq(responses, 1, at)
                         \o << << q, SymptomAnswer(q) >> >>
                         \o SubSeq(responses, at + 1, Len(responses))
       /\ other_n' = other_n - 1
       /\ other_sum' = other_sum - SymptomAnswer(q)
  /\ prev_symptom' = wm_symptom
  /\ prev_es_result' = { es_result[k] : k \in 1..Len(es_result) }
  /\ as_mode' = "superset"
  /\ as_pc' = "request"
  /\ UNCHANGED << resp_i, student_final_stress, wm_symptom, wm_metric,
                  wm_overall_set, es_result, agenda, fired, scan_level,
                  stress_level, final_stress, final_stress_display >>
  /\ UNCHANGED << wm_recommendation, recommendations, prev_response >>
  /\ UNCHANGED not_as_vars

\* A second request: the answers of the first and one more key that is no
\* attribute of a Student and no key of symptom_mapping, answered v.
AssessUnknownKey ==
  /\ as_pc = "done"
  /\ as_mode = "first"
  /\ \E v \in 1..5 :
       /\ other_n' = other_n + 1
       /\ other_sum' = other_sum + v
  /\ prev_response' = [ final |-> final_stress_display,
                        baseline |-> student_final_stress,
                        total |-> TotalScore,
                        max |-> MaxScore ]
  /\ as_mode' = "unknown"
  /\ as_pc' = "request"
  /\ UNCHANGED << responses, resp_i, student_final_stress, wm_symptom,
                  wm_metric, wm_overall_set, es_result, agenda, fired,
                  scan_level, stress_level, final_stress,
                  final_stress_display, prev_symptom, prev_es_result,
                  wm_recommendation, recommendations >>
  /\ UNCHANGED not_as_vars

\* one assess request
AssessStep ==
  \/ AssessEngineRun
  \/ ClipsReset
  \/ ClipsAssertSymptom
  \/ ClipsAssertTotal
  \/ ClipsAssertMax
  \/ ClipsFire
  \/ ClipsCollect
  \/ AssessReconcile

NextAssess ==
  \/ AssessStep
  \/ AssessSuperset

SpecAssess == InitAssess /\ [][NextAssess]_vars

\* requests, each followed by the request with an unknown key added
NextUnknown ==
  \/ AssessStep
  \/ AssessUnknownKey

SpecUnknown == InitAssess /\ [][NextUnknown]_vars

(***************************************************************************)
(* src/stress_expert_web/app.py                                            *)
(***************************************************************************)
\* app.py:172-186, the keys diagnose passes
AppKeys ==
  { "anxiety_level", "self_esteem", "depression", "sleep_quality",
    "study_load" }

\* app.py:81
POSITIVE_KEYS == { "self_esteem", "sleep_quality" }

\* app.py:84-88 with the positive keys not reversed
to_stress_score_identity(key, value) == value

\* app.py:84-88
to_stress_score(key, value) ==
  IF key \in POSITIVE_KEYS THEN 6 - value ELSE value

\* app.py:28-73, the defrules: name, and the level and rule slots asserted
AppRules ==
  { [name |-> "very-high-stress", level |-> "very_high",
     rule |-> "rule-very-high-overall"],
    [name |-> "high-stress", level |-> "high", rule |-> "rule-high-overall"],
    [name |-> "moderate-stress", level |-> "moderate",
     rule |-> "rule-moderate-overall"],
    [name |-> "low-stress", level |-> "low", rule |-> "rule-low-overall"] }

\* app.py:31, 43, 55, 67: the test of a rule on ?v
AppRangeTest(name, v) ==
  CASE name = "very-high-stress" -> Geq(v, Num(40, 10))
    [] name = "high-stress" -> Geq(v, Num(30, 10)) /\ Lt(v, Num(40, 10))
    [] name = "moderate-stress" -> Geq(v, Num(20, 10)) /\ Lt(v, Num(30, 10))
    [] name = "low-stress" -> Lt(v, Num(20, 10))

\* the rules of app.py that match the metric overall with value v
AppMatches(v) == { r \in AppRules : AppRangeTest(r.name, v) }

\* app.py:130-137
symbol_to_label ==
  [ very_high |-> "Very High", high |-> "High", moderate |-> "Moderate",
    low |-> "Low", unknown |-> "Unknown" ]

RECURSIVE SumOver(_, _)
SumOver(f, keys) ==
  IF keys = {} THEN 0
  ELSE LET k == CHOOSE x \in keys : TRUE
       IN  f[k] + SumOver(f, keys \ {k})

\* app.py:91, the argument: any of the keys, each answered 1..5
InitApp ==
  /\ app_pc = "call"
  /\ \E keys \in SUBSET AppKeys : app_responses \in [keys -> 1..5]
  /\ stress_scores = << >>
  /\ app_overall = Num(0, 1)
  /\ app_es_result = << >>
  /\ app_agenda = << >>
  /\ app_stress_level = ""
  /\ triggered_rule = ""
  /\ FcIdle
  /\ AsIdle
  /\ RqIdle
  /\ LdIdle

\* app.py:107-112
AppScore ==
  /\ app_pc = "call"
  /\ stress_scores' = [k \in DOMAIN app_responses |->
                         to_stress_score(k, app_responses[k])]
  /\ app_overall' = IF DOMAIN app_responses # {}
                  THEN Num(SumOver(stress_scores', DOMAIN app_responses),
                           Cardinality(DOMAIN app_responses))
                  ELSE Num(0, 1)
  /\ app_pc' = "assert"
  /\ UNCHANGED << app_responses, app_es_result, app_agenda,
                  app_stress_level, triggered_rule >>
  /\ UNCHANGED not_app_vars

\* app.py:115-116, env.reset() and the assertion of the metric overall
AppAssert ==
  /\ app_pc = "assert"
  /\ app_es_result' = << >>
  /\ app_agenda' \in Orders(AppMatches(app_overall))
  /\ app_pc' = "run"
  /\ UNCHANGED << app_responses, stress_scores, app_overall, app_stress_level,
                  triggered_rule >>
  /\ UNCHANGED not_app_vars

\* app.py:117, env.run(): the first activation fires
AppFire ==
  /\ app_pc = "run"
  /\ app_agenda # << >>
  /\ LET r == Head(app_agenda)
     IN  app_es_result' =
           Append(app_es_result, [level |-> r.level, rule |-> r.rule])
  /\ app_agenda' = Tail(app_agenda)
  /\ UNCHANGED << app_pc, app_responses, stress_scores, app_overall,
                  app_stress_level, triggered_rule >>
  /\ UNCHANGED not_app_vars

\* app.py:117-137, env.run() returns and the first es_result is read
AppCollect ==
  /\ app_pc = "run"
  /\ app_agenda = << >>
  /\ LET level_symbol == IF app_es_result # << >>
                           THEN Head(app_es_result).level
                           ELSE "unknown"
     IN  app_stress_level' =
           (IF level_symbol \in DOMAIN symbol_to_label
              THEN symbol_to_label[level_symbol]
              ELSE "Unknown")
  /\ triggered_rule' = IF app_es_result # << >>
                         THEN Head(app_es_result).rule
                         ELSE "none"
  /\ app_pc' = "done"
  /\ UNCHANGED << app_responses, stress_scores, app_overall, app_es_result,
                  app_agenda >>
  /\ UNCHANGED not_app_vars

NextApp ==
  \/ AppScore
  \/ AppAssert
  \/ AppFire
  \/ AppCollect

SpecApp == InitApp /\ [][NextApp]_vars

\* the range rules of both rule bases
InitRanges ==
  \/ InitAssess
  \/ InitApp

NextRanges ==
  \/ AssessStep
  \/ NextApp

SpecRanges == InitRanges /\ [][NextRanges]_vars

(***************************************************************************)
(* src/project.py: Student, RuleEngine, the rules of the engine and the    *)
(* assess requests that run it                                             *)
(***************************************************************************)
\* largest number of answers of a request that differ from its common answer
MaxOverrides == 2

\* project.py:502-521, the attributes of a Student
StudentFields ==
  { "anxiety_level", "self_esteem", "mental_health_history", "depression",
    "headache", "blood_pressure", "sleep_quality", "breathing_problem",
    "noise_level", "living_conditions", "safety", "basic_needs",
    "academic_performance", "study_load", "teacher_student_relationship",
    "future_career_concerns", "social_support", "peer_pressure",
    "extracurricular_activities", "bullying" }

\* project.py:599-650, the attributes the conditions of the rules read
RuleFields ==
  { "anxiety_level", "depression", "mental_health_history", "headache",
    "sleep_quality", "breathing_problem", "bullying", "study_load",
    "future_career_concerns", "noise_level", "basic_needs",
    "living_conditions", "social_support", "peer_pressure" }

\* project.py:526-532, the keys of section_reasons
Sections ==
  { "Mental State", "Physical Symptoms", "Environmental Factors",
    "Academic Pressure", "Social Support" }

\* project.py:606-676, engine.rules after the add_rule calls, in
\* registration order; section and reason are what the action appends
EngineRules ==
  << [name |-> "Critical Mental State", priority |-> 100,
      section |-> "Mental State", reason |-> "High anxiety and depression."],
     [name |-> "Severe Physical Symptoms", priority |-> 90,
      section |-> "Physical Symptoms",
      reason |-> "Severe physical symptoms (headache + sleep + breathing)."],
     [name |-> "Bullying Crisis", priority |-> 85,
      section |-> "Social Support",
      reason |-> "Bullying experience detected."],
     [name |-> "Academic Pressure", priority |-> 70,
      section |-> "Academic Pressure",
      reason |-> "Heavy study load and career concerns."],
     [name |-> "Environmental Stress", priority |-> 60,
      section |-> "Environmental Factors",
      reason |-> "Poor environment or unmet basic needs."],
     [name |-> "Social Support Issue", priority |-> 55,
      section |-> "Social Support",
      reason |-> "Low support + high peer pressure."],
     [name |-> "Overall Score", priority |-> 10,
      section |-> "", reason |-> ""] >>

\* project.py:659-660 with a condition on an attribute
score_rule_anxious(s) == s["anxiety_level"] >= 4

\* project.py:659-660
score_rule(s) == TRUE

\* project.py:599-660, the condition of the rule of the given name on the
\* attributes s of a Student
RuleCondition(name, s) ==
  CASE name = "Critical Mental State" ->
         \/ s["anxiety_level"] >= 4 /\ s["depression"] >= 4
         \/ s["mental_health_history"] >= 4
    [] name = "Severe Physical Symptoms" ->
         /\ s["headache"] >= 4
         /\ s["sleep_quality"] >= 4
         /\ s["breathing_problem"] >= 4
    [] name = "Bullying Crisis" -> s["bullying"] >= 4
    [] name = "Academic Pressure" ->
         s["study_load"] >= 4 /\ s["future_career_concerns"] >= 4
    [] name = "Environmental Stress" ->
         \/ s["noise_level"] >= 4
         \/ s["basic_needs"] >= 4
         \/ s["living_conditions"] >= 4
    [] name = "Social Support Issue" ->
         s["social_support"] <= 2 /\ s["peer_pressure"] >= 4
    [] name = "Overall Score" -> score_rule(s)

\* sorted(..., reverse=True) with the rule put before those of its priority
InsertByPriority_ascending(r, rs) ==
  LET n == Cardinality({ k \in 1..Len(rs) : rs[k].priority <= r.priority })
  IN  SubSeq(rs, 1, n) \o << r >> \o SubSeq(rs, n + 1, Len(rs))

\* A rule put into a list that is in descending priority: after the rules
\* of higher or equal priority.
InsertByPriority(r, rs) ==
  LET n == Cardinality({ k \in 1..Len(rs) : rs[k].priority >= r.priority })
  IN  SubSeq(rs, 1, n) \o << r >> \o SubSeq(rs, n + 1, Len(rs))

\* project.py:549, sorted(self.rules, key=lambda x: x[2], reverse=True):
\* a stable sort, rules of equal priority keep their order
RECURSIVE SortByPriority(_)
SortByPriority(rs) ==
  IF rs = << >>
    THEN << >>
    ELSE InsertByPriority(rs[Len(rs)],
                          SortByPriority(SubSeq(rs, 1, Len(rs) - 1)))

\* the order in which run visits the rules
SortedRules == SortByPriority(EngineRules)

\* project.py:497-532, Student(name, responses)
Student(resp) ==
  [ responses |-> resp,
    attrs |-> [k \in StudentFields |->
                 IF k \in DOMAIN resp THEN resp[k] ELSE 1],
    final_stress |-> "Low",
    section_reasons |-> [c \in Sections |-> << >>] ]

\* project.py:602-674, with the reason appended to every section
RuleAction_allsections(r, s) ==
  IF r.name = "Overall Score"
    THEN [s EXCEPT !.final_stress =
            ScoreAction(SumOver(s.responses, DOMAIN s.responses))]
    ELSE [s EXCEPT !.section_reasons =
            [c \in Sections |-> Append(s.section_reasons[c], r.reason)]]

\* project.py:602-674, the action of a rule on a Student
RuleAction(r, s) ==
  IF r.name = "Overall Score"
    THEN [s EXCEPT !.final_stress =
            ScoreAction(SumOver(s.responses, DOMAIN s.responses))]
    ELSE [s EXCEPT !.section_reasons[r.section] = Append(@, r.reason)]

\* the texts a request can give as an answer
RawValues == { "0", "1", "2", "3", "4", "5", "6", "abc" }

\* the texts int() accepts
IntLiterals == { "0", "1", "2", "3", "4", "5", "6" }

\* project.py:695, int(responses[key])
int(raw) ==
  CASE raw = "0" -> 0 [] raw = "1" -> 1 [] raw = "2" -> 2 [] raw = "3" -> 3
    [] raw = "4" -> 4 [] raw = "5" -> 5 [] raw = "6" -> 6

\* the answers of the scale, as texts
ScaleTexts == { "1", "2", "3", "4", "5" }

\* the questions answered with the common answer: none, those the rules
\* read, or all
BaseFieldSets == { {}, RuleFields, StudentFields }

\* the keys answered apart from the common answer; nickname is no attribute
OverrideKeys ==
  { "social_support", "mental_health_history", "headache", "nickname" }

Overrides ==
  UNION { [K -> RawValues] :
            K \in { S \in SUBSET OverrideKeys :
                      Cardinality(S) <= MaxOverrides } }

\* project.py:691, the mappings a request is made with
RawRequests ==
  { [k \in B \cup DOMAIN o |-> IF k \in DOMAIN o THEN o[k] ELSE u] :
      B \in BaseFieldSets, u \in ScaleTexts, o \in Overrides }

\* the mappings of the requests that are made at the same time
ConcRequests ==
  { [k \in B |-> u] : B \in BaseFieldSets, u \in { "1", "5", "abc" } }

\* no Student has been made
NoStudent ==
  [ responses |-> << >>, attrs |-> << >>, final_stress |-> "",
    section_reasons |-> << >> ]

\* the requests ps arrive, each with a mapping of rs
RqInit(ps, rs) ==
  /\ procs = ps
  /\ rq_pc = [p \in ps |-> "request"]
  /\ rq_raw \in [ps -> rs]
  /\ rq_responses = [p \in ps |-> << >>]
  /\ student = [p \in ps |-> NoStudent]
  /\ run_i = [p \in ps |-> 0]
  /\ run_writes = [p \in ps |-> 0]
  /\ triggered_rules = << >>
  /\ response_data = [p \in ps |-> << >>]
  /\ run_mode = [p \in ps |-> "first"]
  /\ prev_trace = [p \in ps |-> << >>]
  /\ prev_reasons = [p \in ps |-> << >>]
  /\ FcIdle
  /\ AsIdle
  /\ AppIdle
  /\ LdIdle

\* one request
InitEngine == RqInit({1}, RawRequests)

\* two requests handled by two threads
InitConc == RqInit({1, 2}, ConcRequests)

\* project.py:694-695 and 740-741: int() raises on an answer and the
\* handler answers with the text of the exception, which quotes the answer
RqConvertError ==
  \E p \in procs :
    /\ rq_pc[p] = "request"
    /\ \E k \in DOMAIN rq_raw[p] :
         /\ rq_raw[p][k] \notin IntLiterals
         /\ response_data' =
              [response_data EXCEPT ![p] =
                 [error |-> << "invalid literal for int() with base 10",
                               rq_raw[p][k] >>]]
    /\ rq_pc' = [rq_pc EXCEPT ![p] = "done"]
    /\ UNCHANGED << procs, rq_raw, rq_responses, student, run_i, run_writes,
                    triggered_rules, run_mode, prev_trace, prev_reasons >>
    /\ UNCHANGED not_rq_vars

\* project.py:694-695, every answer is converted
RqConvert ==
  \E p \in procs :
    /\ rq_pc[p] = "request"
    /\ \A k \in DOMAIN rq_raw[p] : rq_raw[p][k] \in IntLiterals
    /\ rq_responses' =
         [rq_responses EXCEPT ![p] =
            [k \in DOMAIN rq_raw[p] |-> int(rq_raw[p][k])]]
    /\ rq_pc' = [rq_pc EXCEPT ![p] = "student"]
    /\ UNCHANGED << procs, rq_raw, student, run_i, run_writes, triggered_rules,
                    response_data, run_mode, prev_trace, prev_reasons >>
    /\ UNCHANGED not_rq_vars

\* project.py:698
RqStudent ==
  \E p \in procs :
    /\ rq_pc[p] = "student"
    /\ student' = [student EXCEPT ![p] = Student(rq_responses[p])]
    /\ rq_pc' = [rq_pc EXCEPT ![p] = "run"]
    /\ UNCHANGED << procs, rq_raw, rq_responses, run_i, run_writes,
                    triggered_rules, response_data, run_mode, prev_trace,
                    prev_reasons >>
    /\ UNCHANGED not_rq_vars

\* project.py:547-549, run starts: the trace of the engine is emptied
EngineRunEnter ==
  \E p \in procs :
    /\ rq_pc[p] = "run"
    /\ triggered_rules' = << >>
    /\ run_i' = [run_i EXCEPT ![p] = 1]
    /\ run_writes' = [run_writes EXCEPT ![p] = 0]
    /\ rq_pc' = [rq_pc EXCEPT ![p] = "rule"]
    /\ UNCHANGED << procs, rq_raw, rq_responses, student, response_data,
                    run_mode, prev_trace, prev_reasons >>
    /\ UNCHANGED not_rq_vars

\* project.py:549, the loop moves to the next rule or run returns
EngineAdvance(p) ==
  /\ run_i' = [run_i EXCEPT ![p] = @ + 1]
  /\ rq_pc' = [rq_pc EXCEPT ![p] =
                 IF run_i[p] >= Len(SortedRules) THEN "ran" ELSE "rule"]

\* project.py:550-554, the condition holds: the action runs and the name
\* is appended to the trace of the engine
EngineRuleFire ==
  \E p \in procs :
    /\ rq_pc[p] = "rule"
    /\ LET r == SortedRules[run_i[p]]
       IN  /\ RuleCondition(r.name, student[p].attrs)
           /\ student' = [student EXCEPT ![p] = RuleAction(r, @)]
           /\ run_writes' =
                [run_writes EXCEPT ![p] =
                   IF r.name = "Overall Score" THEN @ + 1 ELSE @]
           /\ triggered_rules' = Append(triggered_rules, r.name)
    /\ EngineAdvance(p)
    /\ UNCHANGED << procs, rq_raw, rq_responses, response_data, run_mode,
                    prev_trace, prev_reasons >>
    /\ UNCHANGED not_rq_vars

\* project.py:550, the condition does not hold
EngineRuleSkip ==
  \E p \in procs :
    /\ rq_pc[p] = "rule"
    /\ ~ RuleCondition(SortedRules[run_i[p]].name, student[p].attrs)
    /\ EngineAdvance(p)
    /\ UNCHANGED << procs, rq_raw, rq_responses, student, run_writes,
                    triggered_rules, response_data, run_mode, prev_trace,
                    prev_reasons >>
    /\ UNCHANGED not_rq_vars

\* project.py:702, evaluate_responses is called with the responses and
\* returns (its steps are ClipsReset to ClipsCollect)
RqEvaluateResponses ==
  \E p \in procs :
    /\ rq_pc[p] = "ran"
    /\ rq_pc' = [rq_pc EXCEPT ![p] = "expert"]
    /\ UNCHANGED << procs, rq_raw, rq_responses, student, run_i, run_writes,
                    triggered_rules, response_data, run_mode, prev_trace,
                    prev_reasons >>
    /\ UNCHANGED not_rq_vars

\* project.py:725-738, the response body: engine.explain() reads the trace
\* of the engine
RqRespond ==
  \E p \in procs :
    /\ rq_pc[p] = "expert"
    /\ response_data' =
         [response_data EXCEPT ![p] =
            [ error |-> << >>,
              section_reasons |-> student[p].section_reasons,
              triggered_rules |-> triggered_rules,
              total_score |-> SumOver(student[p].responses,
                                      DOMAIN student[p].responses),
              max_score |-> Cardinality(DOMAIN student[p].responses) * 5 ]]
    /\ rq_pc' = [rq_pc EXCEPT ![p] = "done"]
    /\ UNCHANGED << procs, rq_raw, rq_responses, student, run_i, run_writes,
                    triggered_rules, run_mode, prev_trace, prev_reasons >>
    /\ UNCHANGED not_rq_vars

\* engine.run is called again on the Student of the run that returned
EngineRerun ==
  \E p \in procs :
    /\ rq_pc[p] = "ran"
    /\ run_mode[p] = "first"
    /\ prev_trace' = [prev_trace EXCEPT ![p] = triggered_rules]
    /\ prev_reasons' = [prev_reasons EXCEPT ![p] = student[p].section_reasons]
    /\ run_mode' = [run_mode EXCEPT ![p] = "again"]
    /\ rq_pc' = [rq_pc EXCEPT ![p] = "run"]
    /\ UNCHANGED << procs, rq_raw, rq_responses, student, run_i, run_writes,
                    triggered_rules, response_data >>
    /\ UNCHANGED not_rq_vars

\* a step of a request
RqStep ==
  \/ RqConvertError
  \/ RqConvert
  \/ RqStudent
  \/ EngineRunEnter
  \/ EngineRuleFire
  \/ EngineRuleSkip
  \/ RqEvaluateResponses
  \/ RqRespond

NextEngine ==
  \/ RqStep
  \/ EngineRerun

SpecEngine == InitEngine /\ [][NextEngine]_vars

\* the threads of the server take their steps in any order
NextConc == RqStep

SpecConc == InitConc /\ [][NextConc]_vars

(***************************************************************************)
(* src/project.py: score_action and the ladder of evaluate_responses on    *)
(* the same mapping                                                        *)
(***************************************************************************)
\* the questions answered apart from the common answer
LadderKeys == { "anxiety_level", "sleep_quality", "bullying" }

LadderOverrides ==
  UNION { [K -> 1..5] :
            K \in { S \in SUBSET LadderKeys :
                      Cardinality(S) <= MaxOverrides } }

\* project.py:501-520, the questions in the order of the Student fields
FieldOrder ==
  << "anxiety_level", "self_esteem", "mental_health_history", "depression",
     "headache", "blood_pressure", "sleep_quality", "breathing_problem",
     "noise_level", "living_conditions", "safety", "basic_needs",
     "academic_performance", "study_load", "teacher_student_relationship",
     "future_career_concerns", "social_support", "peer_pressure",
     "extracurricular_activities", "bullying" >>

\* the first j questions answered a + 1, the others a
StepAnswers(a, j) ==
  [k \in StudentFields |->
     IF \E i \in 1..j : FieldOrder[i] = k THEN a + 1 ELSE a]

\* the mappings given to both ladders: the 20 questions answered, or only
\* those the rules read, with answers 1..5; every total from 20 to 100 is
\* among them
LadderRequests ==
  { [k \in B |-> IF k \in DOMAIN o THEN o[k] ELSE StepAnswers(a, j)[k]] :
      B \in { RuleFields, StudentFields }, a \in 1..4,
      j \in 0..Len(FieldOrder), o \in LadderOverrides }

InitLadder ==
  /\ ld_pc = "input"
  /\ ld_responses \in LadderRequests
  /\ ld_baseline = ""
  /\ ld_level = ""
  /\ FcIdle
  /\ AsIdle
  /\ AppIdle
  /\ RqIdle

\* project.py:662-673, score_action on a Student made from the mapping
LadderScoreAction ==
  /\ ld_pc = "input"
  /\ ld_baseline' =
       ScoreAction(SumOver(ld_responses, DOMAIN ld_responses))
  /\ ld_pc' = "scored"
  /\ UNCHANGED << ld_responses, ld_level >>
  /\ UNCHANGED not_ld_vars

\* project.py:406-408 and 475-485, the ladder on total_score / max_score
LadderRatio ==
  /\ ld_pc = "scored"
  /\ ld_level' =
       ScoreLadder(SumOver(ld_responses, DOMAIN ld_responses),
                   Cardinality(DOMAIN ld_responses) * 5)
  /\ ld_pc' = "laddered"
  /\ UNCHANGED << ld_responses, ld_baseline >>
  /\ UNCHANGED not_ld_vars

NextLadder ==
  \/ LadderScoreAction
  \/ LadderRatio

SpecLadder == InitLadder /\ [][NextLadder]_vars

(***************************************************************************)
(* Properties of forward_chain                                             *)
(***************************************************************************)
\* a fact set is closed under RULES
ClosedUnderRules(fs) ==
  \A r \in 1..Len(RULES) :
    (\A k \in 1..Len(RULES[r].conditions) : RULES[r].conditions[k] \in fs)
      => RULES[r].conclusion \in fs

\* C1: every call of forward_chain on a finite initial fact list returns:
\* the scan loop reaches a pass that adds nothing and the call ends.
FcTerminates == <>(fc_pc = "done")

\* C1 witness: a call that added facts, made a second pass and returned
FcTerminates_witness ==
  fc_pc = "done" /\ passes = 2 /\ facts # initial_facts

\* C2: the Resolver stays Scanning after a pass that asserted a fact, moves
\* to Fixed-Point only from the loop test after a full pass that asserted
\* nothing, and the set it returns is closed under RULES.
ResolverTransitions ==
  [][ /\ (fc_pc = "while" /\ passes > 0 /\ facts # pass_base)
           => fc_pc' = "for"
      /\ (fc_pc # "done" /\ fc_pc' = "done")
           => /\ fc_pc = "while"
              /\ passes > 0
              /\ facts = pass_base
              /\ facts' = facts
              /\ ClosedUnderRules(facts') ]_vars

\* C2 witness: Scanning -> Scanning -> Fixed-Point with derived facts
ResolverTransitions_witness ==
  fc_pc = "done" /\ passes >= 2 /\ "rec_breaks" \in facts

\* C3: forward_chain called on its own result returns that result and
\* asserts no new fact (one pass, nothing added).
FixpointIdempotent ==
  (fc_pc = "done" /\ fc_mode = "closure")
    => (facts = prev_result /\ passes = 1)

\* C3 witness: the second call has returned and the first had derived facts
FixpointIdempotent_witness ==
  /\ fc_pc = "done"
  /\ fc_mode = "closure"
  /\ prev_result # prev_input
  /\ "rec_plan" \in prev_result

\* C4: for S1 a subset of S2, forward_chain(S1) is a subset of
\* forward_chain(S2).
FcMonotone ==
  (fc_pc = "done" /\ fc_mode = "superset") => prev_result \subseteq facts

\* C4 witness: both calls returned, the first derived a conclusion and the
\* second derived conclusions the first did not
FcMonotone_witness ==
  /\ fc_pc = "done"
  /\ fc_mode = "superset"
  /\ prev_input # initial_facts
  /\ "stress_low" \in prev_result
  /\ "stress_high" \in facts \ prev_result

(***************************************************************************)
(* Properties of the CLIPS Resolver and of assess                          *)
(***************************************************************************)
Indicators ==
  { "stress_high_indicator", "stress_moderate_indicator",
    "stress_low_indicator" }

\* the es_result facts held, as a set
ResultSet == { es_result[k] : k \in 1..Len(es_result) }

\* the second request has reached its fixpoint and returned
SupersetDone == as_pc = "done" /\ as_mode = "superset"

\* C5 as stated: for symptom sets S1 a subset of S2 with the same
\* total_score and max_score, every indicator fact and every es_result
\* held at the fixpoint for S1 is held at the fixpoint for S2.
ClipsMonotone ==
  SupersetDone
    => /\ (prev_symptom \cap Indicators) \subseteq wm_symptom
       /\ prev_es_result \subseteq ResultSet

\* the es_result rule slots of the rules that rest on no negated pattern
PositiveResults ==
  { "high-stress-symptom-1", "high-stress-symptom-2", "high-stress-symptom-3",
    "overall-high-stress", "fallback-score-very-high", "fallback-score-high",
    "fallback-score-moderate", "fallback-score-low",
    "rule-very-high-overall", "rule-high-overall" }

\* C5 amended: for S1 a subset of S2 with the same total_score and
\* max_score, stress_high_indicator and the es_result facts of the
\* high-stress-symptom rules, of overall-high-stress, of the fallback rules
\* and of rule-very-high-overall and rule-high-overall held at the fixpoint
\* for S1 are held at the fixpoint for S2.
ClipsMonotonePositive ==
  SupersetDone
    => /\ "stress_high_indicator" \in prev_symptom
            => "stress_high_indicator" \in wm_symptom
       /\ \A e \in prev_es_result :
            e.rule \in PositiveResults => e \in ResultSet

\* C5 witness: both requests returned, the first held the high indicator
\* and the second fired a rule the first did not
ClipsMonotonePositive_witness ==
  /\ SupersetDone
  /\ "stress_high_indicator" \in prev_symptom
  /\ \E e \in prev_es_result : e.level = "high_risk"
  /\ ResultSet \ prev_es_result # {}

\* C6: no rule that fired is invalidated by a later assertion: the symptom
\* patterns of every fired rule, the negated ones included, still hold, and
\* the moderate or low indicator is never held with the high indicator.
FiredRulesStayValid ==
  /\ \A k \in 1..Len(fired) :
       /\ RuleNamed(fired[k].rule).pos \subseteq wm_symptom
       /\ RuleNamed(fired[k].rule).neg \cap wm_symptom = {}
  /\ "stress_high_indicator" \in wm_symptom
       => /\ "stress_moderate_indicator" \notin wm_symptom
          /\ "stress_low_indicator" \notin wm_symptom

\* C7: the metric named overall holds at most one value in every state of
\* an evaluate_responses run.
OverallSingleValued ==
  Cardinality(MetricValues(wm_metric, "overall")) <= 1

\* severity of a classification label
Severity(label) ==
  CASE label \in {"Very_High", "Very High"} -> 4
    [] label = "High" -> 3
    [] label = "Moderate" -> 2
    [] label = "Low" -> 1
    [] OTHER -> 0

\* C8: the classification after the scan of the es_result facts is the
\* highest-severity level among those present, Undetermined if none is.
ScanTakesHighest ==
  as_pc \in {"returned", "done"}
    => /\ \A e \in ResultSet :
            Severity(scan_level) >= Severity(LevelTitle(e.level))
       /\ \/ scan_level = "Undetermined" /\ ResultSet = {}
          \/ \E e \in ResultSet : scan_level = LevelTitle(e.level)

\* C9: in assess, a Resolver classification other than Undetermined is the
\* final label whatever the Evaluator's baseline is (Very_High is shown as
\* Very High); otherwise the final label is the baseline.
ReconcilerPrecedence ==
  as_pc = "done"
    => IF stress_level # "Undetermined"
         THEN /\ final_stress = stress_level
              /\ final_stress_display =
                   (IF stress_level = "Very_High" THEN "Very High"
                                                  ELSE stress_level)
         ELSE /\ final_stress = student_final_stress
              /\ final_stress_display = student_final_stress

\* C9 witness: the Resolver's label is taken although the baseline differs
ReconcilerPrecedence_witness ==
  /\ as_pc = "done"
  /\ stress_level = "Low"
  /\ student_final_stress = "Very High"
  /\ final_stress_display = "Low"

\* C10: for every value of the overall metric exactly one of the four range
\* rules matches, in project.py and in app.py, so that one range es_result
\* is produced per value.
RangePartition ==
  /\ \A o \in MetricValues(wm_metric, "overall") :
       /\ Cardinality({ n \in RangeRuleNames :
                          [rule |-> n, v |-> o]
                            \in RuleMatches(wm_symptom, wm_metric) }) = 1
       /\ as_pc \in {"returned", "done"}
            => Cardinality({ k \in 1..Len(fired) :
                               /\ fired[k].v = o
                               /\ fired[k].rule \in RangeRuleNames }) = 1
  /\ app_pc \in {"assert", "run", "done"}
       => Cardinality(AppMatches(app_overall)) = 1
  /\ app_pc = "done" => Len(app_es_result) = 1

\* C10 witness: a value on the limit 4.0 was classified by one rule
RangePartition_witness ==
  /\ app_pc = "done"
  /\ app_overall.n = 4 * app_overall.d
  /\ app_es_result = << [level |-> "very_high",
                         rule |-> "rule-very-high-overall"] >>

\* the fallback rule the ratio total_score / max_score selects
FallbackFor(total, max) ==
  IF 10 * total > 8 * max THEN "fallback-very-high-stress"
  ELSE IF 10 * total > 6 * max THEN "fallback-high-stress"
  ELSE IF 10 * total > 4 * max THEN "fallback-moderate-stress"
  ELSE "fallback-low-stress"

\* the fallback rules that have an activation for the working memory
FallbackEligible ==
  { a.rule : a \in { x \in RuleMatches(wm_symptom, wm_metric) :
                       x.rule \in FallbackRuleNames } }

\* C11: with total_score and max_score asserted, max_score > 0 and no
\* overall metric held, exactly one fallback rule is eligible, the one the
\* ratio selects (> 0.8 very high, (0.6, 0.8] high, (0.4, 0.6] moderate,
\* <= 0.4 low); a fallback rule fires only while no overall metric is held
\* and at most one fallback rule fires in an evaluation.
FallbackExactlyOne ==
  /\ [](/\ (/\ as_pc = "run"
            /\ MaxScore > 0
            /\ MetricValues(wm_metric, "overall") = {})
             => FallbackEligible = { FallbackFor(TotalScore, MaxScore) }
        /\ Cardinality({ k \in 1..Len(fired) :
                           fired[k].rule \in FallbackRuleNames }) <= 1)
  /\ [][ (/\ Len(fired') = Len(fired) + 1
          /\ fired'[Len(fired')].rule \in FallbackRuleNames)
           => MetricValues(wm_metric, "overall") = {} ]_vars

\* C11 witness: the ratio is on the limit 0.8, fallback-high-stress fired
\* first and the rules on the overall metric fired after it
FallbackExactlyOne_witness ==
  /\ as_pc = "done"
  /\ 10 * TotalScore = 8 * MaxScore
  /\ Len(fired) >= 3
  /\ fired[1].rule = "fallback-high-stress"
  /\ \E k \in 2..Len(fired) : fired[k].rule = "rule-high-overall"

(***************************************************************************)
(* Properties of RuleEngine.run and of the assess requests                 *)
(***************************************************************************)
\* position of a rule in the registration order
RegIndex(name) == CHOOSE k \in 1..Len(EngineRules) : EngineRules[k].name = name

RulePriority(name) == EngineRules[RegIndex(name)].priority

\* the names of the rules whose condition holds for a Student
HeldNames(s) ==
  { EngineRules[k].name :
      k \in { j \in 1..Len(EngineRules) :
                RuleCondition(EngineRules[j].name, s.attrs) } }

\* positions of a name in a trace
Positions(tr, name) == { k \in 1..Len(tr) : tr[k] = name }

\* C12: the trace of a run lists exactly the rules whose condition held,
\* each once, in non-increasing priority and, for equal priorities, in
\* registration order; Severe Physical Symptoms precedes Academic Pressure
\* when both match.
TraceInPriorityOrder ==
  \A p \in procs :
    rq_pc[p] = "ran"
      => LET tr == triggered_rules
         IN  /\ { tr[k] : k \in 1..Len(tr) } = HeldNames(student[p])
             /\ Len(tr) = Cardinality(HeldNames(student[p]))
             /\ \A i, j \in 1..Len(tr) :
                  i < j =>
                    \/ RulePriority(tr[i]) > RulePriority(tr[j])
                    \/ /\ RulePriority(tr[i]) = RulePriority(tr[j])
                       /\ RegIndex(tr[i]) < RegIndex(tr[j])
             /\ \A i \in Positions(tr, "Severe Physical Symptoms"),
                   j \in Positions(tr, "Academic Pressure") : i < j

\* C12 witness: a run in which every rule fired
TraceInPriorityOrder_witness ==
  /\ procs = {1}
  /\ rq_pc[1] = "ran"
  /\ Len(triggered_rules) = Len(EngineRules)
  /\ triggered_rules[2] = "Severe Physical Symptoms"
  /\ triggered_rules[4] = "Academic Pressure"

\* C13: after every run Overall Score is in the trace exactly once, as its
\* last entry, and student.final_stress was written once, whether or not
\* another rule fired.
OneOverallScore ==
  \A p \in procs :
    rq_pc[p] = "ran"
      => /\ Cardinality(Positions(triggered_rules, "Overall Score")) = 1
         /\ triggered_rules[Len(triggered_rules)] = "Overall Score"
         /\ run_writes[p] = 1

\* C13 witness: a run in which no other rule fired
OneOverallScore_witness ==
  /\ procs = {1}
  /\ rq_pc[1] = "ran"
  /\ triggered_rules = << "Overall Score" >>
  /\ student[1].final_stress = "Moderate"

\* every answer of the request is on the scale and answers an attribute
WellFormed(p) ==
  /\ DOMAIN rq_raw[p] \subseteq StudentFields
  /\ \A k \in DOMAIN rq_raw[p] : rq_raw[p][k] \in ScaleTexts

\* C14: after a run the classification of the Student is f of the sum of
\* its 20 attributes, unanswered ones counted as 1 (f: > 80 Very High,
\* > 60 High, > 40 Moderate, else Low).
BaselineIsAttributeSum ==
  \A p \in procs :
    (rq_pc[p] = "ran" /\ WellFormed(p))
      => student[p].final_stress =
           ScoreAction(SumOver(student[p].attrs, StudentFields))

\* C15: a second run on the same Student gives the trace and the section
\* explanations of the first.
RerunSame ==
  \A p \in procs :
    (rq_pc[p] = "ran" /\ run_mode[p] = "again")
      => /\ triggered_rules = prev_trace[p]
         /\ student[p].section_reasons = prev_reasons[p]

\* the rules run fires for a Student, in the order it visits them
ExpectedFired(s) ==
  SelectSeq(SortedRules, LAMBDA r : RuleCondition(r.name, s.attrs))

\* C16: whatever the interleaving of two requests, the triggered_rules and
\* section_reasons of a response are those computed from the answers of
\* its own request.
RequestsIsolated ==
  \A p \in procs :
    (rq_pc[p] = "done" /\ response_data[p].error = << >>)
      => LET f == ExpectedFired(Student(rq_responses[p]))
         IN  /\ response_data[p].triggered_rules =
                  [k \in 1..Len(f) |-> f[k].name]
             /\ \A c \in Sections :
                  response_data[p].section_reasons[c] =
                    LET g == SelectSeq(f, LAMBDA r : r.section = c)
                    IN  [k \in 1..Len(g) |-> g[k].reason]

\* the keys of the request whose answer is not an integer of 1..5
Offending(p) ==
  { k \in DOMAIN rq_raw[p] : rq_raw[p][k] \notin ScaleTexts }

\* C17: a request with an answer that is not an integer of 1..5 is rejected
\* before the Student is made and before either engine runs, and its
\* response is an error that names the offending key.
InvalidRejected ==
  \A p \in procs :
    Offending(p) # {}
      => /\ rq_pc[p] \in { "request", "done" }
         /\ rq_pc[p] = "done"
              => /\ response_data[p].error # << >>
                 /\ response_data[p].error[2] \in Offending(p)

(***************************************************************************)
(* Properties of assess on unknown keys, on the empty mapping and of the   *)
(* recommendation lookup                                                   *)
(***************************************************************************)
\* C18: a request with one more key that is not an attribute name is
\* answered with the final classification, the Evaluator baseline and the
\* total_score and max_score of the request without that key.
UnknownKeyIgnored ==
  (as_pc = "done" /\ as_mode = "unknown")
    => /\ final_stress_display = prev_response.final
       /\ student_final_stress = prev_response.baseline
       /\ TotalScore = prev_response.total
       /\ MaxScore = prev_response.max

AdviceTier(label) ==
  CASE label \in { "Very_High", "Very High", "High" } -> "high"
    [] label = "Moderate" -> "moderate"
    [] label = "Low" -> "low"
    [] OTHER -> "none"

\* C20: evaluate_responses returns, in registration order, exactly the
\* advice texts whose for_level matches the returned classification (the
\* high ones for High and Very High), and the empty list if none matches.
RecommendationsMatch ==
  as_pc \in { "returned", "done" }
    => LET hits == SelectSeq(RecommendationFacts,
                     LAMBDA f : f.for_level = AdviceTier(stress_level))
       IN  recommendations = [k \in 1..Len(hits) |-> hits[k].text]

\* position of the rule that concludes a rec_ fact in RULES (sample.py:17-24)
RecIndex(rec) == CHOOSE i \in 1..Len(RULES) : RULES[i].conclusion = rec

\* C21: the recommendations of evaluate follow the order in which the rec_
\* rules are listed in RULES (rec_breaks, rec_counselor, rec_sleep,
\* rec_time_block, rec_plan, rec_exercise, rec_peer, rec_monitor), so that
\* one symptom list always gives one sequence
RecsInRegistrationOrder ==
  fc_pc = "evaluated" =>
    \A i, j \in 1..Len(ev_recs) :
      i < j => RecIndex(ev_recs[i]) < RecIndex(ev_recs[j])

\* the scenarios are run against both programs: evaluate of sample.py and
\* the assess request of project.py
InitScenario == InitFC \/ InitAssess

NextScenario ==
  \/ NextEval
  \/ AssessStep

SpecScenario == InitScenario /\ [][NextScenario]_vars

\* the questions answered in a request, whatever their order
Answered == { responses[i] : i \in 1..Len(responses) }

\* the facts of a list
ListFacts(list) == { list[k] : k \in 1..Len(list) }

HighTierRecs == { "rec_breaks", "rec_counselor", "rec_sleep", "rec_time_block" }

ScenarioAFacts == { "poor_sleep", "irritability", "deadline_pressure" }

ScenarioAAnswers ==
  { << "sleep_quality", 5 >>, << "irritability", 5 >>, << "study_load", 5 >> }

\* C22 (Scenario A): from poor_sleep, irritability and deadline_pressure
\* forward_chain derives stress_high and rec_breaks, rec_counselor,
\* rec_sleep and rec_time_block, evaluate classifies high and returns the
\* four texts; the answers sleep_quality 5, irritability 5, study_load 5
\* fire high-stress-symptom-1 in project.py and the request ends Very High.
ScenarioA ==
  /\ initial_facts = ScenarioAFacts
       => /\ fc_pc \in { "done", "evaluated" }
               => /\ "stress_high" \in facts
                  /\ HighTierRecs \subseteq facts
                  /\ classify_stress(facts) = "high"
          /\ fc_pc = "evaluated"
               => /\ ev_level = "high"
                  /\ ListFacts(ev_recs) = HighTierRecs
                  /\ Len(ev_recommendations) = 4
                  /\ ListFacts(ev_recommendations)
                       = { EXPLANATIONS[rec] : rec \in HighTierRecs }
  /\ (Answered = ScenarioAAnswers /\ other_n = 0 /\ as_mode = "first")
       => /\ as_pc \in { "returned", "done" }
               => /\ "stress_high_indicator" \in wm_symptom
                  /\ \E k \in 1..Len(fired) :
                       fired[k].rule = "high-stress-symptom-1"
                  /\ stress_level \in { "High", "Very_High" }
          /\ as_pc = "done"
               => final_stress_display \in { "High", "Very High" }

\* C22 witness: evaluate has returned for the three symptoms of Scenario A
ScenarioA_witness ==
  /\ fc_pc = "evaluated"
  /\ fc_mode = "first"
  /\ initial_facts = ScenarioAFacts
  /\ ev_level = "high"
  /\ Len(ev_recommendations) = 4

\* the request of Scenario A has been answered by project.py
ScenarioA_assess_witness ==
  /\ as_pc = "done"
  /\ as_mode = "first"
  /\ Answered = ScenarioAAnswers
  /\ other_n = 0
  /\ "stress_high_indicator" \in wm_symptom
  /\ final_stress_display = "Very High"

ScenarioBFacts == { "social_withdrawal", "minor_worry_only" }

ScenarioBAnswers == { << "social_support", 1 >>, << "peer_pressure", 1 >> }

\* C23 (Scenario B): from social_withdrawal and minor_worry_only the
\* fixpoint holds stress_low and neither stress_moderate nor stress_high,
\* evaluate classifies low and returns the text of rec_monitor alone; the
\* answers social_support 1, peer_pressure 1 fire low-stress-symptom in
\* project.py, no other indicator is held and the request ends Low.
ScenarioB ==
  /\ initial_facts = ScenarioBFacts
       => /\ fc_pc \in { "done", "evaluated" }
               => /\ "stress_low" \in facts
                  /\ "stress_moderate" \notin facts
                  /\ "stress_high" \notin facts
                  /\ { fact \in facts : IsRec(fact) } = { "rec_monitor" }
          /\ fc_pc = "evaluated"
               => /\ ev_level = "low"
                  /\ ev_recommendations = << EXPLANATIONS["rec_monitor"] >>
  /\ (Answered = ScenarioBAnswers /\ other_n = 0 /\ as_mode = "first")
       => /\ as_pc \in { "returned", "done" }
               => /\ wm_symptom \cap Indicators = { "stress_low_indicator" }
                  /\ \E k \in 1..Len(fired) :
                       fired[k].rule = "low-stress-symptom"
                  /\ stress_level = "Low"
          /\ as_pc = "done" => final_stress_display = "Low"

\* C23 witness: evaluate has returned for the two symptoms of Scenario B
ScenarioB_witness ==
  /\ fc_pc = "evaluated"
  /\ fc_mode = "first"
  /\ initial_facts = ScenarioBFacts
  /\ ev_level = "low"
  /\ Len(ev_recommendations) = 1

\* the request of Scenario B has been answered by project.py
ScenarioB_assess_witness ==
  /\ as_pc = "done"
  /\ as_mode = "first"
  /\ Answered = ScenarioBAnswers
  /\ other_n = 0
  /\ "stress_low_indicator" \in wm_symptom
  /\ final_stress_display = "Low"

(***************************************************************************)
(* Properties of forward_chain: growth of the set and number of passes     *)
(***************************************************************************)
\* C25: inside a call the set of forward_chain only grows, from one step
\* to the next, and it holds every initial fact; so the result holds the
\* initial facts and every fact added in any pass.
FactsNeverLost ==
  /\ [](fc_pc # "call" => initial_facts \subseteq facts)
  /\ [][fc_pc # "call" /\ fc_pc' # "call" => facts \subseteq facts']_vars

\* C25 witness: a call has returned a set that holds its three initial
\* facts and facts added to them
FactsNeverLost_witness ==
  /\ fc_pc = "done"
  /\ Cardinality(initial_facts) = 3
  /\ initial_facts \subseteq facts
  /\ Cardinality(facts \ initial_facts) >= 5

RECURSIVE FactLayer(_)
\* the layer of a fact: 0 for a fact no rule concludes, otherwise one more
\* than the highest layer among the conditions of the rules that conclude it
FactLayer(fact) ==
  LET concluding == { i \in 1..Len(RULES) : RULES[i].conclusion = fact }
      below == UNION { { FactLayer(RULES[i].conditions[k]) :
                           k \in 1..Len(RULES[i].conditions) } :
                       i \in concluding }
  IN IF concluding = {} THEN 0
     ELSE 1 + CHOOSE n \in below : \A m \in below : m <= n

\* the number of rule layers of RULES: symptoms to stress levels, stress
\* levels to recommendations
NumLayers ==
  LET layers == { FactLayer(RULES[i].conclusion) : i \in 1..Len(RULES) }
  IN CHOOSE n \in layers : \A m \in layers : m <= n

\* C26: whatever the initial facts, a call of forward_chain makes at most
\* as many passes over RULES as RULES has layers.
PassesBoundedByLayers == passes <= NumLayers

\* C26 witness: a call with MaxInitial symptoms that derived a stress level
\* and its recommendations has returned after as many passes as layers
PassesBoundedByLayers_witness ==
  /\ fc_pc = "done"
  /\ fc_mode = "first"
  /\ Cardinality(initial_facts) = MaxInitial
  /\ "rec_breaks" \in facts
  /\ passes = NumLayers

(***************************************************************************)
(* Properties of RuleEngine.run: what the actions write                    *)
(***************************************************************************)
\* the step is the firing of a rule for the Student of request p
FiresFor(p) ==
  /\ rq_pc[p] = "rule"
  /\ run_i'[p] # run_i[p]
  /\ Len(triggered_rules') = Len(triggered_rules) + 1

\* the sections whose list is one longer after the step, the old list kept
GrownSections(p) ==
  { c \in Sections :
      /\ Len(student'[p].section_reasons[c])
           = Len(student[p].section_reasons[c]) + 1
      /\ SubSeq(student'[p].section_reasons[c], 1,
                Len(student[p].section_reasons[c]))
           = student[p].section_reasons[c] }

\* C24: no step of a run changes the attributes or the responses of a
\* Student; the firing of a rule other than Overall Score appends to one
\* section of section_reasons and leaves the others and final_stress as they
\* are, Overall Score leaves section_reasons as it is; and the rules fired
\* by a run, first or repeated, are those whose condition holds on the
\* attributes the Student was made with.
EvaluatorSingleShot ==
  /\ [][\A p \in procs :
          student[p] # NoStudent
            => /\ student'[p].attrs = student[p].attrs
               /\ student'[p].responses = student[p].responses
               /\ FiresFor(p)
                    => IF triggered_rules'[Len(triggered_rules')]
                            = "Overall Score"
                         THEN student'[p].section_reasons
                                = student[p].section_reasons
                         ELSE /\ Cardinality(GrownSections(p)) = 1
                              /\ \A c \in Sections \ GrownSections(p) :
                                   student'[p].section_reasons[c]
                                     = student[p].section_reasons[c]
                              /\ student'[p].final_stress
                                   = student[p].final_stress]_vars
  /\ [](\A p \in procs :
          rq_pc[p] = "ran"
            => /\ student[p].attrs = Student(rq_responses[p]).attrs
               /\ { triggered_rules[k] : k \in 1..Len(triggered_rules) }
                    = HeldNames(Student(rq_responses[p])))

\* C24 witness: a second run over one Student has fired three rules that
\* write a section, and Overall Score
EvaluatorSingleShot_witness ==
  \E p \in procs :
    /\ rq_pc[p] = "ran"
    /\ run_mode[p] = "again"
    /\ Len(triggered_rules) >= 4
    /\ "Overall Score" \in HeldNames(student[p])
    /\ student[p].attrs = Student(rq_responses[p]).attrs

\* the labels a response carries as final_stress
FinalLabels == { "Low", "Moderate", "High", "Very High" }

\* C27: evaluate_responses never returns Undetermined, the score ladder
\* replaces it; so assess takes the returned level, never the baseline of
\* the Evaluator, and the final label is Low, Moderate, High or Very High.
NeverUndetermined ==
  /\ as_pc \in { "returned", "done" }
       => /\ stress_level # "Undetermined"
          /\ stress_level \in FinalLabels \cup { "Very_High" }
          /\ scan_level = "Undetermined"
               => stress_level = ScoreLadder(TotalScore, MaxScore)
  /\ as_pc = "done"
       => /\ final_stress = stress_level
          /\ final_stress_display \in FinalLabels

\* C27 witness: no es_result fact was held, the scan left Undetermined, the
\* ladder gave Low and assess answered with it
NeverUndetermined_witness ==
  /\ as_pc = "done"
  /\ scan_level = "Undetermined"
  /\ stress_level = "Low"
  /\ final_stress = "Low"
  /\ ScanLevels(es_result, "Undetermined") = "Undetermined"

\* the order of the levels of classify_stress
EvalSeverity(level) ==
  CASE level = "undetermined" -> 0
    [] level = "low" -> 1
    [] level = "moderate" -> 2
    [] level = "high" -> 3

\* C28: for symptom sets S1 a subset of S2, the level evaluate returns for
\* S2 is at least as severe as the one it returns for S1, in the order
\* undetermined < low < moderate < high.
SeverityMonotone ==
  (fc_pc = "evaluated" /\ fc_mode = "superset")
    => /\ prev_input \subseteq initial_facts
       /\ prev_level = classify_stress(prev_result)
       /\ EvalSeverity(ev_level) >= EvalSeverity(prev_level)

\* C28 witness: evaluate returned low for a set that holds minor_worry_only
\* and moderate for a superset of it, whose fixpoint holds stress_low too
SeverityMonotone_witness ==
  /\ fc_pc = "evaluated"
  /\ fc_mode = "superset"
  /\ prev_input # initial_facts
  /\ prev_level = "low"
  /\ ev_level = "moderate"
  /\ "stress_low" \in facts

(***************************************************************************)
(* Properties of the two score ladders                                     *)
(***************************************************************************)
\* the total of the answers given to the ladders
LadderTotal == SumOver(ld_responses, DOMAIN ld_responses)

\* C29: when the 20 questions, and no other key, are answered 1..5, the
\* label of score_action (limits 80, 60, 40 on the sum) is the label of the
\* ladder of evaluate_responses (limits 0.8, 0.6, 0.4 on the ratio).
LaddersAgree ==
  ( /\ ld_pc = "laddered"
    /\ DOMAIN ld_responses = StudentFields
    /\ \A k \in StudentFields : ld_responses[k] \in 1..5 )
    => ld_baseline = ld_level

\* C29 witness: both ladders gave High for 20 answers that sum to 80
LaddersAgree_witness ==
  /\ ld_pc = "laddered"
  /\ DOMAIN ld_responses = StudentFields
  /\ LadderTotal = 80
  /\ ld_baseline = "High"
  /\ ld_level = "High"

(***************************************************************************)
(* Properties of run_inference_with_clips                                  *)
(***************************************************************************)
\* the stress score the answers of a mapping call for: 6 - value for
\* self_esteem and sleep_quality, the value otherwise
ExpectedScore(key, value) ==
  IF key \in { "self_esteem", "sleep_quality" } THEN 6 - value ELSE value

\* count and total of the stress scores of the mapping
AppCount == Cardinality(DOMAIN app_responses)

AppSum ==
  SumOver([k \in DOMAIN app_responses |->
             ExpectedScore(k, app_responses[k])], DOMAIN app_responses)

\* the label for a total sum of n stress scores: Very High from 4n, High
\* from 3n, Moderate from 2n, Low below
LabelBySum(sum, n) ==
  IF sum >= 4 * n THEN "Very High"
  ELSE IF sum >= 3 * n THEN "High"
  ELSE IF sum >= 2 * n THEN "Moderate"
  ELSE "Low"

\* the scores are the expected ones, in 1..5, one range rule fired and the
\* label is not Unknown
AppScoresAndRule ==
  /\ app_pc \in { "assert", "run", "done" }
       => /\ DOMAIN stress_scores = DOMAIN app_responses
          /\ \A k \in DOMAIN stress_scores :
               /\ stress_scores[k] \in 1..5
               /\ stress_scores[k] = ExpectedScore(k, app_responses[k])
  /\ app_pc = "done"
       => /\ Len(app_es_result) = 1
          /\ app_stress_level # "Unknown"

\* C30 as stated: for every mapping with values 1..5, the empty one
\* included, the scores stay in 1..5, one range rule fires, and the label is
\* Very High iff sum >= 4n, High iff 3n <= sum < 4n, Moderate iff
\* 2n <= sum < 3n, Low otherwise.
AppLabelBySum ==
  /\ AppScoresAndRule
  /\ app_pc = "done" => app_stress_level = LabelBySum(AppSum, AppCount)

\* C30 amended: the same for the mappings with at least one answer; the
\* empty mapping, whose overall is set to 0.0, is labelled Low.
AppLabelBySumNonEmpty ==
  /\ AppScoresAndRule
  /\ app_pc = "done"
       => app_stress_level =
            (IF AppCount > 0 THEN LabelBySum(AppSum, AppCount) ELSE "Low")

\* C30 witness: three answers, a reversed one among them, whose stress
\* scores sum to 12: the mean is 4.0 and the label Very High
AppLabelBySumNonEmpty_witness ==
  /\ app_pc = "done"
  /\ AppCount = 3
  /\ "self_esteem" \in DOMAIN app_responses
  /\ app_responses["self_esteem"] = 1
  /\ AppSum = 12
  /\ app_stress_level = "Very High"
  /\ triggered_rule = "rule-very-high-overall"

====
